---- MODULE Spec2Model ----
(***************************************************************************)
(* Hex-grid auto-battle core of puzzle-tactics (src/src/battle, bridge).   *)
(*                                                                         *)
(* Units of measure.  The program computes in f32; the model uses fixed    *)
(* point: time in 1/60 s (3.0 s = 180), health / attack / defense / mana   *)
(* in hundredths (80.0 = 8000), attack_speed and crit_chance in            *)
(* hundredths (1.2 = 120).  A product x * 1.2 is (x * 12) \div 10.         *)
(*                                                                         *)
(* One frame of the Update schedule is BeginFrame followed by the chained  *)
(* battle systems in the order of BattlePlugin::build, one action per      *)
(* system (a system's deferred commands are applied with it).  The         *)
(* schedule orders neither the systems registered outside the chain nor    *)
(* the observers fed by the puzzle board against the chain:                *)
(*  - the observers (match, mana supply, unit move) run before any system  *)
(*    of the chain;                                                        *)
(*  - buff_timer_system runs once per frame at one of the five places that *)
(*    differ: before check_wave_complete_system, targeting_system,         *)
(*    attack_system, ability_system or death_system.  The removal of an    *)
(*    expired buff is a deferred command: a buff at remaining 0 stays on   *)
(*    the unit until the next command flush (FlushBuffs), which follows    *)
(*    every chained system that takes Commands; targeting_system and       *)
(*    movement_system take none;                                           *)
(*  - wave_break_timer_system runs once per frame; it acts in the          *)
(*    WaveBreak phase only, where no other system of the frame touches     *)
(*    what it writes, so it is placed at the head of the frame.            *)
(*                                                                         *)
(* A run explores one scenario (where the run starts, which match the      *)
(* board reports, how much mana a combo supplies, which archetype          *)
(* random_enemy_type draws, how long a frame takes) and at most MaxEvents  *)
(* external events.  SpecWaveBreak runs the schedule alone from the wave   *)
(* break, SpecRoster the synergy systems on rosters of up to MaxRoster     *)
(* units of one archetype, SpecSummon the summon_unit observer on fields   *)
(* with up to MaxSameRank units of each rank, and SpecStats the recording  *)
(* calls of BattleStats, which no system of the program calls.  A scenario *)
(* with `resumes` lets the pause menu put the game back to Playing after   *)
(* GameResult.game_ended is set.                                           *)
(***************************************************************************)
EXTENDS Integers, Sequences, FiniteSets, TLC

VARIABLES
    units,            \* live entity id -> components of the Unit entity
    grid,             \* BattleGrid.units : HexPosition -> entity id
    nextId,           \* next fresh entity id
    wave_manager,     \* WaveManager resource
    phase,            \* State<PhaseState>
    next_phase,       \* NextState<PhaseState> ("" = unset)
    wave_break_timer, \* WaveBreakTimer.remaining
    bombs,            \* bombs on the puzzle board: countdown -> number of bombs
    bomb_timer,       \* BombCountdownTimer.timer
    game_result,      \* GameResult resource
    synergies,        \* ActiveSynergies.bonuses, absent type = "None"
    pc,               \* next system of the chain to run in this frame
    dt,               \* time.delta_secs() of the frame
    buffDone,         \* buff_timer_system has run in this frame
    wbDone,           \* wave_break_timer_system has run in this frame
    frame,            \* frames started
    events,           \* external events (match, mana supply, unit move) delivered
    scenario,         \* what the board and the random draws offer in this run
    battle_stats,     \* BattleStats resource (ally_performance_map, mvp_ally)
    last              \* what the last step did (history, read by the properties)

vars == <<units, grid, nextId, wave_manager, phase, next_phase, wave_break_timer,
          bombs, bomb_timer, game_result, synergies, pc, dt, buffDone, wbDone, frame,
          events, scenario, battle_stats, last>>

----------------------------------------------------------------------------
\* Bounds of the model
MaxSameRank == 2
MaxKills == 2
MaxDamage == 50000
MaxRoster == 7
MaxEntities == 4
MaxFrames == 10
MaxEvents == 2
MaxBombs == 1

\* Frame times the model draws delta_secs from (0.5 s, 1.5 s); a run keeps
\* the frame time of its scenario.
Deltas == {30, 90}

----------------------------------------------------------------------------
\* prelude.rs
BATTLE_GRID_ROWS == 4
BATTLE_GRID_COLS == 7

TileTypes == {"Red", "Blue", "Green", "Yellow", "Purple"}

Abs(x) == IF x < 0 THEN -x ELSE x
Max(a, b) == IF a >= b THEN a ELSE b
Min(a, b) == IF a <= b THEN a ELSE b

----------------------------------------------------------------------------
\* hex_grid.rs

HexPosition(q, r) == [q |-> q, r |-> r]

neighbors(p) ==
    << HexPosition(p.q + 1, p.r),
       HexPosition(p.q + 1, p.r - 1),
       HexPosition(p.q, p.r - 1),
       HexPosition(p.q - 1, p.r),
       HexPosition(p.q - 1, p.r + 1),
       HexPosition(p.q, p.r + 1) >>

distance(a, b) ==
    (Abs(a.q - b.q) + Abs(a.q + a.r - b.q - b.r) + Abs(a.r - b.r)) \div 2

\* -BATTLE_GRID_COLS / 2 is (-7) / 2 = -3 in Rust (division truncates).
is_valid_position(pos) ==
    /\ pos.q >= -(BATTLE_GRID_COLS \div 2)
    /\ pos.q <= BATTLE_GRID_COLS \div 2
    /\ pos.r >= -(BATTLE_GRID_ROWS \div 2)
    /\ pos.r <= BATTLE_GRID_ROWS \div 2

is_occupied(g, pos) == pos \in DOMAIN g

MapRemove(g, pos) == [p \in DOMAIN g \ {pos} |-> g[p]]
MapInsert(g, pos, e) == [p \in DOMAIN g \cup {pos} |-> IF p = pos THEN e ELSE g[p]]

\* Each grid operation yields its return value (ok) and the map afterwards.
place_unit(g, pos, e) ==
    IF is_valid_position(pos) /\ ~is_occupied(g, pos)
    THEN [ok |-> TRUE, units |-> MapInsert(g, pos, e)]
    ELSE [ok |-> FALSE, units |-> g]

\* remove_unit as it would be if it left the cell in the map.
remove_unit_leaves_cell(g, pos) == g

remove_unit(g, pos) == MapRemove(g, pos)

\* move_unit as it would be without the test of the destination.
move_unit_onto_occupied(g, from, to) ==
    IF from \in DOMAIN g
    THEN [ok |-> TRUE, units |-> MapInsert(MapRemove(g, from), to, g[from])]
    ELSE [ok |-> FALSE, units |-> g]

move_unit(g, from, to) ==
    IF from \in DOMAIN g
    THEN LET entity == g[from]
             removed == MapRemove(g, from)
         IN IF ~is_occupied(removed, to) /\ is_valid_position(to)
            THEN [ok |-> TRUE, units |-> MapInsert(removed, to, entity)]
            ELSE [ok |-> FALSE, units |-> MapInsert(removed, from, entity)]
    ELSE [ok |-> FALSE, units |-> g]

\* First free cell of the scan (q outer, r inner over the player half); the
\* result is a set holding it, or the empty set for None.
find_empty_position(g) ==
    LET free == {p \in {HexPosition(q, r) :
                            q \in -(BATTLE_GRID_COLS \div 2) .. BATTLE_GRID_COLS \div 2,
                            r \in -(BATTLE_GRID_ROWS \div 2) .. 0} :
                    is_valid_position(p) /\ ~is_occupied(g, p)}
    IN {p \in free : \A o \in free : p.q < o.q \/ (p.q = o.q /\ p.r <= o.r)}

----------------------------------------------------------------------------
\* unit.rs

RageDuration == 300
StealthDuration == 180
MeteorDamage == 1500

\* rage / stealth of a unit: the remaining time of its RageBuff / StealthBuff
\* component, NoBuff when it carries none.
NoBuff == -1

RankMultiplier(star_rank) ==
    CASE star_rank = 1 -> 10
      [] star_rank = 2 -> 18
      [] star_rank = 3 -> 30
      [] OTHER -> 10

BaseStats(tile_type) ==
    CASE tile_type = "Red" ->
           [health |-> 8000, attack |-> 1500, attack_speed |-> 120,
            attack_range |-> 1, max_mana |-> 10000]
      [] tile_type = "Blue" ->
           [health |-> 12000, attack |-> 800, attack_speed |-> 80,
            attack_range |-> 1, max_mana |-> 10000]
      [] tile_type = "Green" ->
           [health |-> 9000, attack |-> 1200, attack_speed |-> 100,
            attack_range |-> 3, max_mana |-> 10000]
      [] tile_type = "Yellow" ->
           [health |-> 7000, attack |-> 1800, attack_speed |-> 150,
            attack_range |-> 1, max_mana |-> 10000]
      [] tile_type = "Purple" ->
           [health |-> 10000, attack |-> 1000, attack_speed |-> 100,
            attack_range |-> 2, max_mana |-> 8000]

\* The components a unit is spawned with (spawn_unit_at / spawn_enemy_unit):
\* UnitStats::for_type, Target(None), AttackCooldown(0.0), no buff.
NewUnit(tile_type, star_rank, pos, team) ==
    LET base == BaseStats(tile_type)
        multiplier == RankMultiplier(star_rank)
    IN [team |-> team, utype |-> tile_type, rank |-> star_rank, pos |-> pos,
        health |-> (base.health * multiplier) \div 10,
        max_health |-> (base.health * multiplier) \div 10,
        attack |-> (base.attack * multiplier) \div 10,
        attack_speed |-> base.attack_speed,
        attack_range |-> base.attack_range,
        mana |-> 0, max_mana |-> base.max_mana,
        defense |-> 0, crit_chance |-> 0,
        ability_power |-> 0, mana_regen |-> 1000,
        target |-> 0, cooldown |-> 0,
        rage |-> NoBuff, snipe |-> FALSE, stealth |-> NoBuff]

is_dead(u) == u.health <= 0

take_damage(u, amount) ==
    LET reduced == Max(amount - u.defense, 100)
    IN [u EXCEPT !.health = Max(u.health - reduced, 0)]

take_calculated_damage(u, amount) ==
    LET reduction == Min(u.defense, 8000)
        reduced == (amount * (10000 - reduction)) \div 10000
        final_damage == Max(reduced, 100)
    IN [u EXCEPT !.health = Max(u.health - final_damage, 0)]

\* gain_mana as it would be without the .min(max_mana).
gain_mana_unclamped(u, amount) == [u EXCEPT !.mana = u.mana + amount]

gain_mana(u, amount) == [u EXCEPT !.mana = Min(u.mana + amount, u.max_mana)]

\* can_cast as it would be if any mana were enough.
can_cast_with_any_mana(u) == u.mana > 0

can_cast(u) == u.mana >= u.max_mana

Live == DOMAIN units

\* A query's iteration order: some enumeration of the entities it matches.
Orders(S) ==
    {s \in [1 .. Cardinality(S) -> S] : \A i, j \in 1 .. Cardinality(S) : s[i] = s[j] => i = j}

Despawn(us, gone) == [e \in DOMAIN us \ gone |-> us[e]]
Spawn(us, e, u) == [x \in DOMAIN us \cup {e} |-> IF x = e THEN u ELSE us[x]]

\* The commands buff_timer_system queued are applied: expired buffs go.
FlushBuffs(us) ==
    [e \in DOMAIN us |-> [us[e] EXCEPT !.rage = IF @ = 0 THEN NoBuff ELSE @,
                                       !.stealth = IF @ = 0 THEN NoBuff ELSE @]]

History(kind) == [kind |-> kind, pre |-> units, pregrid |-> grid,
                  prewave |-> wave_manager, preresult |-> game_result,
                  presyn |-> synergies, triggered |-> <<>>, summon |-> <<>>, obstacles |-> <<>>,
                  attacks |-> {}, moves |-> <<>>, casters |-> {}, removed |-> {}]

----------------------------------------------------------------------------
\* wave.rs

\* start_wave as it would be without the cap of enemies_for_wave.
start_wave_uncapped(wm, wave_number) ==
    [wm EXCEPT !.current_wave = wave_number,
               !.wave_active = TRUE,
               !.spawn_delay = 30,
               !.enemies_remaining = 3 + wave_number * 2]

\* start_wave as it would be if it did not switch the wave on.
start_wave_left_inactive(wm, wave_number) ==
    [wm EXCEPT !.current_wave = wave_number,
               !.spawn_delay = 30,
               !.enemies_remaining = Min(3 + wave_number * 2, 12)]

start_wave(wm, wave_number) ==
    [wm EXCEPT !.current_wave = wave_number,
               !.wave_active = TRUE,
               !.spawn_delay = 30,
               !.enemies_remaining = Min(3 + wave_number * 2, 12)]

\* rand::random::<f32>() < 0.3 (or 0.5) can come out either way.
enemy_star_rank(wave) == IF wave <= 2 THEN {1} ELSE {1, 2}

\* find_enemy_spawn_position as it would be if it scanned every row.
find_enemy_spawn_position_any_row(g) ==
    LET free == {p \in {HexPosition(q, r) :
                            q \in -(BATTLE_GRID_COLS \div 2) .. BATTLE_GRID_COLS \div 2,
                            r \in -(BATTLE_GRID_ROWS \div 2) .. BATTLE_GRID_ROWS \div 2} :
                    is_valid_position(p) /\ ~is_occupied(g, p)}
    IN {p \in free : \A o \in free : p.r < o.r \/ (p.r = o.r /\ p.q <= o.q)}

find_enemy_spawn_position(g) ==
    LET free == {p \in {HexPosition(q, r) :
                            q \in -(BATTLE_GRID_COLS \div 2) .. BATTLE_GRID_COLS \div 2,
                            r \in 1 .. BATTLE_GRID_ROWS \div 2} :
                    is_valid_position(p) /\ ~is_occupied(g, p)}
    IN {p \in free : \A o \in free : p.r < o.r \/ (p.r = o.r /\ p.q <= o.q)}

----------------------------------------------------------------------------
\* battle_stats.rs.  Damage in hundredths; a kill weighs 100.0 in the score.

\* BattleStats::default(): no ally recorded, mvp_ally.unit_type = None.
NewBattleStats ==
    [ally_performance_map |-> << >>,
     mvp_ally |-> [unit_type |-> "None", kills |-> 0, damage_dealt |-> 0]]

\* The score of update_mvp with the kills left out.
MvpScore_damage_only(entry) == entry.damage

\* kills as f32 * 100.0 + damage
MvpScore(entry) == entry.kills * 10000 + entry.damage

\* The loop of update_mvp over the map in the iteration order `order`:
\* best is [score, type], replaced on a strictly greater score.
RECURSIVE MvpScan(_, _, _, _)
MvpScan(map, order, i, best) ==
    IF i > Len(order) THEN best
    ELSE LET score == MvpScore(map[order[i]])
         IN MvpScan(map, order, i + 1,
                    IF score > best.score
                    THEN [score |-> score, unit_type |-> order[i]]
                    ELSE best)

\* update_mvp: the outcomes over the iteration orders of the HashMap.
update_mvp(bs) ==
    LET map == bs.ally_performance_map
    IN { LET best == MvpScan(map, order, 1, [score |-> 0, unit_type |-> "None"])
         IN IF best.unit_type # "None"
            THEN [bs EXCEPT !.mvp_ally = [unit_type |-> best.unit_type,
                                          kills |-> map[best.unit_type].kills,
                                          damage_dealt |-> map[best.unit_type].damage]]
            ELSE bs
         : order \in Orders(DOMAIN map) }

\* entry(unit_type).or_insert((0, 0.0))
AllyEntry(map, unit_type) ==
    IF unit_type \in DOMAIN map THEN map[unit_type] ELSE [kills |-> 0, damage |-> 0]

record_ally_kill(bs, unit_type, damage) ==
    LET entry == AllyEntry(bs.ally_performance_map, unit_type)
    IN update_mvp([bs EXCEPT !.ally_performance_map =
                      MapInsert(@, unit_type, [kills |-> entry.kills + 1,
                                               damage |-> entry.damage + damage])])

record_ally_damage(bs, unit_type, damage) ==
    LET entry == AllyEntry(bs.ally_performance_map, unit_type)
    IN update_mvp([bs EXCEPT !.ally_performance_map =
                      MapInsert(@, unit_type, [kills |-> entry.kills,
                                               damage |-> entry.damage + damage])])

\* max_by on the damage: with equal damages the iteration order decides.
record_kill_for_top_ally(bs) ==
    LET map == bs.ally_performance_map
        top == {t \in DOMAIN map : \A o \in DOMAIN map : map[t].damage >= map[o].damage}
    IN IF top = {} THEN {bs}
       ELSE UNION { update_mvp([bs EXCEPT !.ally_performance_map[top_type].kills = @ + 1])
                    : top_type \in top }

Chain(from, to) == pc = from /\ pc' = to

Frame == UNCHANGED <<dt, buffDone, wbDone, frame, events, scenario, battle_stats>>

BeginFrame ==
    /\ pc = "frame_end"
    /\ (~game_result.game_ended \/ scenario.resumes)
    /\ frame < MaxFrames
    /\ pc' = "wave_spawner"
    /\ dt' \in Deltas \cap scenario.deltas
    /\ frame' = frame + 1
    /\ buffDone' = FALSE /\ wbDone' = FALSE
    /\ phase' = IF next_phase = "" THEN phase ELSE next_phase
    /\ next_phase' = ""
    /\ last' = History("begin_frame")
    /\ UNCHANGED <<units, grid, nextId, wave_manager, wave_break_timer, bombs,
                   bomb_timer, game_result,
                   synergies, events, scenario, battle_stats>>

wave_spawner_system ==
    /\ Chain("wave_spawner", "bomb_countdown")
    /\ wbDone
    /\ LET wm == wave_manager IN
       IF phase = "WaveBreak"
       THEN UNCHANGED <<wave_manager, units, grid, nextId>>
       ELSE IF ~wm.wave_active
       THEN /\ wave_manager' =
                 LET t == wm.wave_timer - dt IN
                 IF t <= 0
                 THEN [start_wave(wm, wm.current_wave + 1) EXCEPT !.wave_timer = 600]
                 ELSE [wm EXCEPT !.wave_timer = t]
            /\ UNCHANGED <<units, grid, nextId>>
       ELSE IF wm.enemies_remaining = 0
       THEN /\ wave_manager' = [wm EXCEPT !.wave_active = FALSE]
            /\ UNCHANGED <<units, grid, nextId>>
       ELSE IF wm.spawn_delay - dt > 0 \/ find_enemy_spawn_position(grid) = {}
       THEN /\ wave_manager' = [wm EXCEPT !.spawn_delay = wm.spawn_delay - dt]
            /\ UNCHANGED <<units, grid, nextId>>
       ELSE /\ nextId <= MaxEntities
            /\ \E pos \in find_enemy_spawn_position(grid), unit_type \in scenario.enemies,
                  star_rank \in enemy_star_rank(wm.current_wave) :
                 /\ units' = Spawn(units, nextId, NewUnit(unit_type, star_rank, pos, "Enemy"))
                 /\ grid' = place_unit(grid, pos, nextId).units
            /\ nextId' = nextId + 1
            /\ wave_manager' = [wm EXCEPT !.enemies_remaining = wm.enemies_remaining - 1,
                                           !.spawn_delay = 48]
    /\ last' = History("wave_spawner")
    /\ Frame
    /\ UNCHANGED <<phase, next_phase, wave_break_timer, bombs, bomb_timer, game_result,
                   synergies>>

BOMB_COUNTDOWN_INTERVAL == 90
BombCountdown == 3
BombDamage == 1000

\* handle_bomb_damage: the query matches every unit that has a Team.
handle_bomb_damage(us, damage) ==
    [e \in DOMAIN us |-> [us[e] EXCEPT !.health = Max(@ - damage, 0)]]

RECURSIVE BombHits(_, _)
BombHits(us, n) == IF n = 0 THEN us ELSE BombHits(handle_bomb_damage(us, BombDamage), n - 1)

\* Every BOMB_COUNTDOWN_INTERVAL a bomb counts down by one; a bomb at 0
\* triggers a BombDamageEvent and leaves the board.
bomb_countdown_system ==
    /\ Chain("bomb_countdown", "check_wave_complete")
    /\ IF bomb_timer + dt < BOMB_COUNTDOWN_INTERVAL
       THEN /\ bomb_timer' = bomb_timer + dt
            /\ UNCHANGED <<bombs, units>>
       ELSE /\ bomb_timer' = 0
            /\ bombs' = [c \in 0 .. BombCountdown |->
                            IF c < BombCountdown THEN bombs[c + 1] ELSE 0]
            /\ units' = BombHits(units, bombs[0])
    /\ last' = History("bomb_countdown")
    /\ Frame
    /\ UNCHANGED <<grid, nextId, wave_manager, phase, next_phase, wave_break_timer,
                   game_result, synergies>>

WAVE_BREAK_DURATION == 1800

check_wave_complete_system ==
    /\ Chain("check_wave_complete", "targeting")
    /\ IF /\ phase = "Idle"
          /\ ~wave_manager.wave_active
          /\ wave_manager.enemies_remaining = 0
          /\ wave_manager.current_wave > 0
          /\ {e \in Live : units[e].team = "Enemy"} = {}
       THEN wave_break_timer' = WAVE_BREAK_DURATION /\ next_phase' = "WaveBreak"
       ELSE UNCHANGED <<wave_break_timer, next_phase>>
    /\ units' = FlushBuffs(units)
    /\ last' = History("check_wave_complete")
    /\ Frame
    /\ UNCHANGED <<grid, nextId, wave_manager, phase, bombs, bomb_timer, game_result,
                   synergies>>

wave_break_timer_system ==
    /\ pc = "wave_spawner" /\ ~wbDone
    /\ wbDone' = TRUE
    /\ IF phase # "WaveBreak"
       THEN UNCHANGED <<wave_break_timer, next_phase, wave_manager>>
       ELSE /\ wave_break_timer' = Max(wave_break_timer - dt, 0)
            /\ IF wave_break_timer' <= 0
               THEN /\ next_phase' = "Idle"
                    /\ wave_manager' = [wave_manager EXCEPT !.wave_timer = 180]
               ELSE UNCHANGED <<next_phase, wave_manager>>
    /\ last' = History("wave_break_timer")
    /\ UNCHANGED <<units, grid, nextId, phase, bombs, bomb_timer, game_result, synergies,
                   pc, dt, buffDone, frame, events, scenario, battle_stats>>

----------------------------------------------------------------------------
\* combat.rs

\* The scan of targeting_system as it would be without the skip of the
\* stealthed units.
closest_with_stealthed(us, order, entity) ==
    LET cand == {i \in 1 .. Len(order) :
                    /\ order[i] # entity
                    /\ us[order[i]].team # us[entity].team}
        best == {i \in cand : \A j \in cand :
                    \/ distance(us[entity].pos, us[order[i]].pos)
                         < distance(us[entity].pos, us[order[j]].pos)
                    \/ /\ distance(us[entity].pos, us[order[i]].pos)
                            = distance(us[entity].pos, us[order[j]].pos)
                       /\ i <= j}
    IN IF best = {} THEN 0 ELSE order[CHOOSE i \in best : TRUE]

\* The entity the scan of targeting_system keeps for `entity` when the query
\* yields the units in `order`: the first one of minimal distance among the
\* units of the other team that carry no StealthBuff component (0 = None).
closest(us, order, entity) ==
    LET cand == {i \in 1 .. Len(order) :
                    /\ order[i] # entity
                    /\ us[order[i]].team # us[entity].team
                    /\ us[order[i]].stealth = NoBuff}
        best == {i \in cand : \A j \in cand :
                    \/ distance(us[entity].pos, us[order[i]].pos)
                         < distance(us[entity].pos, us[order[j]].pos)
                    \/ /\ distance(us[entity].pos, us[order[i]].pos)
                            = distance(us[entity].pos, us[order[j]].pos)
                       /\ i <= j}
    IN IF best = {} THEN 0 ELSE order[CHOOSE i \in best : TRUE]

targeting_system ==
    /\ Chain("targeting", "movement")
    /\ \E order \in Orders(Live) :
         units' = [e \in Live |-> [units[e] EXCEPT !.target = closest(units, order, e)]]
    /\ last' = History("targeting")
    /\ Frame
    /\ UNCHANGED <<grid, nextId, wave_manager, phase, next_phase, wave_break_timer,
                   bombs, bomb_timer, game_result, synergies>>

\* find_best_move as it would be with the comparison turned (dist > best).
find_best_move_farthest(g, from, target) ==
    LET n == neighbors(from)
        cand == {i \in 1 .. 6 : is_valid_position(n[i]) /\ ~is_occupied(g, n[i])}
        best == {i \in cand : \A j \in cand :
                    \/ distance(n[i], target) > distance(n[j], target)
                    \/ (distance(n[i], target) = distance(n[j], target) /\ i <= j)}
    IN {n[i] : i \in best}

\* The free in-bounds neighbor nearest to the target, the first such in the
\* order of neighbors(); a set holding it, or the empty set for None.
find_best_move(g, from, target) ==
    LET n == neighbors(from)
        cand == {i \in 1 .. 6 : is_valid_position(n[i]) /\ ~is_occupied(g, n[i])}
        best == {i \in cand : \A j \in cand :
                    \/ distance(n[i], target) < distance(n[j], target)
                    \/ (distance(n[i], target) = distance(n[j], target) /\ i <= j)}
    IN {n[i] : i \in best}

\* The units movement_system queues a move for, with the move.
Movers(us, g) ==
    {e \in DOMAIN us :
        /\ us[e].target # 0
        /\ us[e].target \in DOMAIN us
        /\ distance(us[e].pos, us[us[e].target].pos) > us[e].attack_range
        /\ find_best_move(g, us[e].pos, us[us[e].target].pos) # {}}

MoveOf(us, g, e) ==
    [entity |-> e, from |-> us[e].pos,
     to |-> CHOOSE p \in find_best_move(g, us[e].pos, us[us[e].target].pos) : TRUE]

\* The second loop of movement_system: the queued moves applied in order.
RECURSIVE ApplyMoves(_, _, _, _)
ApplyMoves(us, g, movements, i) ==
    IF i > Len(movements) THEN [units |-> us, grid |-> g]
    ELSE LET m == movements[i]
             r == move_unit(g, m.from, m.to)
         IN IF r.ok
            THEN ApplyMoves([us EXCEPT ![m.entity].pos = m.to], r.units, movements, i + 1)
            ELSE ApplyMoves(us, r.units, movements, i + 1)

movement_system ==
    /\ Chain("movement", "attack")
    /\ \E order \in Orders(Movers(units, grid)) :
         LET movements == [i \in 1 .. Len(order) |-> MoveOf(units, grid, order[i])]
             r == ApplyMoves(units, grid, movements, 1)
         IN /\ units' = r.units
            /\ grid' = r.grid
            /\ last' = [History("movement") EXCEPT !.moves = movements]
    /\ Frame
    /\ UNCHANGED <<nextId, wave_manager, phase, next_phase, wave_break_timer,
                   bombs, bomb_timer, game_result, synergies>>

\* The damage of an attack as it would be if the SnipeBuff were not applied.
AttackDamage_without_snipe(u, is_crit) ==
    LET base == IF is_crit THEN (u.attack * 15) \div 10 ELSE u.attack
    IN IF u.rage # NoBuff THEN (base * 12) \div 10 ELSE base

\* The damage attack_system computes for one attacker; rage_entities holds
\* every unit that carries a RageBuff component.
AttackDamage(u, is_crit) ==
    LET has_rage == u.rage # NoBuff
        base == IF is_crit THEN (u.attack * 15) \div 10 ELSE u.attack
        raged == IF has_rage THEN (base * 12) \div 10 ELSE base
    IN IF u.snipe
       THEN LET unraged == IF has_rage THEN (raged * 10) \div 12 ELSE raged
                sniped == unraged * 2
            IN IF has_rage THEN (sniped * 12) \div 10 ELSE sniped
       ELSE raged

\* The units attack_system collects an attack for.
Attackers(us) == {e \in DOMAIN us : us[e].cooldown <= 0 /\ us[e].target # 0}

\* rand::random::<f32>() < crit_chance: never below 0.0, always below >= 1.0.
CritChoices(us) ==
    {c \in SUBSET Attackers(us) :
        \A e \in Attackers(us) :
            /\ (e \in c => us[e].crit_chance > 0)
            /\ (e \notin c => us[e].crit_chance < 100)}

\* final_attacks as they would be applied if a unit brought to health 0
\* earlier in the loop lost its own attack.
RECURSIVE ApplyAttacks_of_the_living(_, _)
ApplyAttacks_of_the_living(us, attacks) ==
    IF attacks = {} THEN us
    ELSE LET a == CHOOSE x \in attacks : TRUE
         IN ApplyAttacks_of_the_living(
                IF a.target \in DOMAIN us /\ us[a.attacker].health > 0
                THEN [us EXCEPT ![a.target] = take_damage(us[a.target], a.damage)]
                ELSE us,
                attacks \ {a})

\* final_attacks applied to the targets, one take_damage per attack.
RECURSIVE ApplyAttacks(_, _)
ApplyAttacks(us, attacks) ==
    IF attacks = {} THEN us
    ELSE LET a == CHOOSE x \in attacks : TRUE
         IN ApplyAttacks(
                IF a.target \in DOMAIN us
                THEN [us EXCEPT ![a.target] = take_damage(us[a.target], a.damage)]
                ELSE us,
                attacks \ {a})

\* The last block of attack_system: every unit's cooldown runs down by the
\* frame time and is set to 1 / attack_speed when it is <= 0.
TickCooldown(u, delta) ==
    LET c == u.cooldown - delta
    IN [u EXCEPT !.cooldown = IF c <= 0 THEN 6000 \div u.attack_speed ELSE c]

\* maybe_spawn_obstacle_on_attack: from wave 5 on, an attack of an enemy may
\* put a bomb on the puzzle board; the set holds the numbers of bombs that
\* `attacks` can add.
BombSpawns(attacks, current_wave, on_board) ==
    IF current_wave >= 5
    THEN 0 .. Max(0, Min(Cardinality({a \in attacks : a.team = "Enemy"}),
                         MaxBombs - on_board))
    ELSE {0}

BombsOnBoard == bombs[0] + bombs[1] + bombs[2] + bombs[3]

\* maybe_spawn_obstacle_on_attack as it would be if the ice branch did not
\* ask for the wave.
maybe_spawn_obstacle_on_attack_ice_at_any_wave(current_wave) ==
    {"None", "Ice"} \cup (IF current_wave >= 5 THEN {"Bomb"} ELSE {})

\* maybe_spawn_obstacle_on_attack for one attack of an enemy: the obstacle
\* types its two rolls can request ("None": no ObstacleSpawnEvent).  The
\* bomb branch returns; a failed bomb roll falls through to the ice branch.
maybe_spawn_obstacle_on_attack(current_wave) ==
    {"None"} \cup (IF current_wave >= 5 THEN {"Bomb"} ELSE {})
             \cup (IF current_wave >= 3 THEN {"Ice"} ELSE {})

\* The requests of one attack step: one call per attack of an Enemy unit,
\* none for the attacks of Player units.
ObstacleRequests(attacks, current_wave, on_board) ==
    LET enemies == {a.attacker : a \in {x \in attacks : x.team = "Enemy"}}
    IN {req \in [enemies -> maybe_spawn_obstacle_on_attack(current_wave)] :
           Cardinality({e \in enemies : req[e] = "Bomb"})
              \in BombSpawns(attacks, current_wave, on_board)}

attack_system ==
    /\ Chain("attack", "ability")
    /\ \E crits \in CritChoices(units) :
         LET attacks == {[attacker |-> e, target |-> units[e].target,
                          damage |-> AttackDamage(units[e], e \in crits),
                          is_crit |-> e \in crits, team |-> units[e].team]
                         : e \in Attackers(units)}
             consumed == [e \in Live |->
                            IF e \in Attackers(units)
                            THEN [units[e] EXCEPT !.snipe = FALSE] ELSE units[e]]
             damaged == ApplyAttacks(consumed, attacks)
         IN /\ units' = FlushBuffs([e \in Live |-> TickCooldown(damaged[e], dt)])
            /\ \E req \in ObstacleRequests(attacks, wave_manager.current_wave,
                                            BombsOnBoard) :
                 /\ bombs' = [bombs EXCEPT ![BombCountdown] =
                                 @ + Cardinality({e \in DOMAIN req : req[e] = "Bomb"})]
                 /\ last' = [History("attack") EXCEPT !.attacks = attacks,
                                                      !.obstacles = req]
    /\ Frame
    /\ UNCHANGED <<grid, nextId, wave_manager, phase, next_phase, wave_break_timer,
                   bomb_timer, game_result, synergies>>

\* Meteor as it would be if the casts of several mages hit only once.
MeteorHits_once(u, n) == IF n = 0 THEN u ELSE take_damage(u, MeteorDamage)

\* Meteor: one take_damage(15.0) per Purple caster on every unit of another team.
RECURSIVE MeteorHits(_, _)
MeteorHits(u, n) == IF n = 0 THEN u ELSE MeteorHits(take_damage(u, MeteorDamage), n - 1)

\* A caster whose buff expired in this frame has the removal of the old
\* component and the insertion of the new one applied by the same command
\* flush, in the order of the two systems in the schedule's graph: the unit
\* ends with the new buff or with none (`lost`).
ability_system ==
    /\ Chain("ability", "death")
    /\ LET casters == {e \in Live : can_cast(units[e])}
           hits(e) == Cardinality({c \in casters :
                          units[c].utype = "Purple" /\ units[c].team # units[e].team})
           struck == [e \in Live |-> MeteorHits(units[e], hits(e))]
           expiring == {e \in casters : \/ units[e].utype = "Red" /\ units[e].rage = 0
                                        \/ units[e].utype = "Yellow" /\ units[e].stealth = 0}
           cast(e, lost) ==
               LET u == struck[e]
                   healed == IF u.utype = "Blue"
                             THEN Min(u.health + (units[e].max_health * 2) \div 10, u.max_health)
                             ELSE u.health
                   fresh(duration) == IF e \in lost THEN NoBuff ELSE duration
               IN [u EXCEPT !.health = healed,
                            !.mana = 0,
                            !.rage = IF u.utype = "Red" THEN fresh(RageDuration) ELSE u.rage,
                            !.snipe = IF u.utype = "Green" THEN TRUE ELSE u.snipe,
                            !.stealth = IF u.utype = "Yellow" THEN fresh(StealthDuration)
                                        ELSE u.stealth]
       IN /\ \E lost \in SUBSET expiring :
               units' = FlushBuffs([e \in Live |->
                                      IF e \in casters THEN cast(e, lost) ELSE struck[e]])
          /\ last' = [History("ability") EXCEPT !.casters = casters]
    /\ Frame
    /\ UNCHANGED <<grid, nextId, wave_manager, phase, next_phase, wave_break_timer,
                   bombs, bomb_timer, game_result, synergies>>

\* RageBuff::tick / StealthBuff::tick on the units that carry the buff; the
\* removal of a buff that reached 0 waits for the next command flush.
tick(remaining, delta) == IF remaining = NoBuff THEN NoBuff ELSE Max(remaining - delta, 0)

buff_timer_system ==
    /\ pc \in {"check_wave_complete", "targeting", "attack", "ability", "death"}
    /\ ~buffDone
    /\ buffDone' = TRUE
    /\ units' = [e \in Live |-> [units[e] EXCEPT !.rage = tick(@, dt),
                                                 !.stealth = tick(@, dt)]]
    /\ last' = History("buff_timer")
    /\ UNCHANGED <<grid, nextId, wave_manager, phase, next_phase, wave_break_timer,
                   bombs, bomb_timer, game_result, synergies, pc, dt, wbDone, frame,
                   events, scenario, battle_stats>>

RECURSIVE RemoveAll(_, _)
RemoveAll(g, cells) ==
    IF cells = {} THEN g
    ELSE LET c == CHOOSE x \in cells : TRUE IN RemoveAll(remove_unit(g, c), cells \ {c})

death_system ==
    /\ Chain("death", "update_synergies")
    /\ buffDone
    /\ LET dead == {e \in Live : is_dead(units[e])}
       IN /\ grid' = RemoveAll(grid, {units[e].pos : e \in dead})
          /\ units' = FlushBuffs(Despawn(units, dead))
          /\ last' = [History("death") EXCEPT !.removed = dead]
    /\ Frame
    /\ UNCHANGED <<nextId, wave_manager, phase, next_phase, wave_break_timer,
                   bombs, bomb_timer, game_result, synergies>>

----------------------------------------------------------------------------
\* synergy.rs

\* from_count as it would be with Gold from five units on.
from_count_gold_at_five(count) ==
    IF count <= 1 THEN "None"
    ELSE IF count <= 3 THEN "Bronze"
    ELSE IF count <= 4 THEN "Silver"
    ELSE "Gold"

from_count(count) ==
    IF count <= 1 THEN "None"
    ELSE IF count <= 3 THEN "Bronze"
    ELSE IF count <= 5 THEN "Silver"
    ELSE "Gold"

\* bonus_multiplier, in hundredths
bonus_multiplier(level) ==
    CASE level = "None" -> 100
      [] level = "Bronze" -> 115
      [] level = "Silver" -> 130
      [] level = "Gold" -> 150

update_synergies ==
    /\ Chain("update_synergies", "apply_synergy_bonuses")
    /\ synergies' = [t \in TileTypes |->
                        from_count(Cardinality({e \in Live :
                            units[e].team = "Player" /\ units[e].utype = t}))]
    /\ last' = History("update_synergies")
    /\ Frame
    /\ UNCHANGED <<units, grid, nextId, wave_manager, phase, next_phase,
                   wave_break_timer, bombs, bomb_timer, game_result>>

\* 1.0 + share * (multiplier - 1.0) / 0.15, in thousandths (share in thousandths)
Bonus(share, multiplier) == 1000 + (share * (multiplier - 100)) \div 15

LevelStep(level) ==
    CASE level = "Bronze" -> 1 [] level = "Silver" -> 2 [] level = "Gold" -> 3 [] OTHER -> 0

\* The body of the loop of apply_synergy_bonuses for one unit.
SynergyBonus(u, level) ==
    LET multiplier == bonus_multiplier(level) IN
    IF u.team # "Player" \/ level = "None" THEN u
    ELSE CASE u.utype = "Red" ->
                [u EXCEPT !.attack = (u.attack * Bonus(200, multiplier)) \div 1000,
                          !.health = (u.health * Bonus(100, multiplier)) \div 1000,
                          !.max_health = (u.max_health * Bonus(100, multiplier)) \div 1000]
           [] u.utype = "Blue" ->
                [u EXCEPT !.health = (u.health * Bonus(300, multiplier)) \div 1000,
                          !.max_health = (u.max_health * Bonus(300, multiplier)) \div 1000,
                          !.defense = u.defense + (multiplier - 100) * 10]
           [] u.utype = "Green" ->
                [u EXCEPT !.attack_range = u.attack_range + LevelStep(level),
                          !.attack_speed = (u.attack_speed * Bonus(150, multiplier)) \div 1000]
           [] u.utype = "Yellow" ->
                [u EXCEPT !.attack = (u.attack * Bonus(300, multiplier)) \div 1000,
                          !.crit_chance = u.crit_chance + 10 * LevelStep(level)]
           [] u.utype = "Purple" ->
                [u EXCEPT !.ability_power = (u.ability_power * Bonus(250, multiplier)) \div 1000,
                          !.mana_regen = (u.mana_regen * (1000 + 200 * LevelStep(level))) \div 1000]

apply_synergy_bonuses ==
    /\ Chain("apply_synergy_bonuses", "check_game_result")
    /\ units' = [e \in Live |-> SynergyBonus(units[e], synergies[units[e].utype])]
    /\ last' = History("apply_synergy_bonuses")
    /\ Frame
    /\ UNCHANGED <<grid, nextId, wave_manager, phase, next_phase, wave_break_timer,
                   bombs, bomb_timer, game_result, synergies>>

----------------------------------------------------------------------------
\* game_result.rs

\* DEFENSELESS_TIMEOUT as it would be at 3.0 s.
DEFENSELESS_TIMEOUT_three_seconds == 3 * 60

DEFENSELESS_TIMEOUT == 300

\* check_game_result as it would be without the early return on game_ended.
check_game_result_without_early_return ==
    /\ Chain("check_game_result", "frame_end")
    /\ IF FALSE
       THEN UNCHANGED game_result /\ last' = History("check_game_result")
       ELSE LET player_count == Cardinality({e \in Live : units[e].team = "Player"})
                enemy_count == Cardinality({e \in Live : units[e].team = "Enemy"})
                enemy_reached_base ==
                    \E e \in Live : units[e].team = "Enemy" /\ units[e].pos.r <= -2
                wm == wave_manager
                g1 == IF player_count > 0
                      THEN [game_result EXCEPT !.player_had_units = TRUE,
                                               !.defenseless_timer = 0]
                      ELSE game_result
                wave_complete == wm.wave_active /\ enemy_count = 0 /\ wm.enemies_remaining = 0
                g2 == IF wave_complete
                      THEN [g1 EXCEPT !.waves_completed = wm.current_wave]
                      ELSE g1
                timed == ~(g2.player_had_units /\ player_count = 0 /\ wm.current_wave > 0)
                         /\ ~enemy_reached_base
                         /\ player_count = 0 /\ enemy_count > 0
                g3 == IF timed
                      THEN [g2 EXCEPT !.defenseless_timer = g2.defenseless_timer + dt]
                      ELSE g2
                should_lose ==
                    \/ (g2.player_had_units /\ player_count = 0 /\ wm.current_wave > 0)
                    \/ enemy_reached_base
                    \/ (timed /\ g3.defenseless_timer >= DEFENSELESS_TIMEOUT)
                g4 == IF should_lose
                      THEN [g3 EXCEPT !.game_ended = TRUE, !.victory = FALSE]
                      ELSE g3
                wins == wm.current_wave >= 10 /\ enemy_count = 0 /\ ~wm.wave_active
                g5 == IF wins
                      THEN [g4 EXCEPT !.game_ended = TRUE, !.victory = TRUE,
                                      !.waves_completed = wm.current_wave]
                      ELSE g4
                triggered ==
                    (IF wave_complete
                     THEN <<[event |-> "WaveCompleteEvent", wave_number |-> wm.current_wave]>>
                     ELSE <<>>)
                    \o (IF should_lose
                        THEN <<[event |-> "GameOverEvent", victory |-> FALSE,
                                waves_survived |-> Max(wm.current_wave - 1, 0)]>>
                        ELSE <<>>)
                    \o (IF wins
                        THEN <<[event |-> "GameOverEvent", victory |-> TRUE,
                                waves_survived |-> wm.current_wave]>>
                        ELSE <<>>)
            IN /\ game_result' = g5
               /\ last' = [History("check_game_result") EXCEPT !.triggered = triggered]
    /\ Frame
    /\ UNCHANGED <<units, grid, nextId, wave_manager, phase, next_phase,
                   wave_break_timer, bombs, bomb_timer, synergies>>

\* check_game_result as it would be with the victory from wave 5 on.
check_game_result_victory_at_wave_five ==
    /\ Chain("check_game_result", "frame_end")
    /\ IF game_result.game_ended
       THEN UNCHANGED game_result /\ last' = History("check_game_result")
       ELSE LET player_count == Cardinality({e \in Live : units[e].team = "Player"})
                enemy_count == Cardinality({e \in Live : units[e].team = "Enemy"})
                enemy_reached_base ==
                    \E e \in Live : units[e].team = "Enemy" /\ units[e].pos.r <= -2
                wm == wave_manager
                g1 == IF player_count > 0
                      THEN [game_result EXCEPT !.player_had_units = TRUE,
                                               !.defenseless_timer = 0]
                      ELSE game_result
                wave_complete == wm.wave_active /\ enemy_count = 0 /\ wm.enemies_remaining = 0
                g2 == IF wave_complete
                      THEN [g1 EXCEPT !.waves_completed = wm.current_wave]
                      ELSE g1
                timed == ~(g2.player_had_units /\ player_count = 0 /\ wm.current_wave > 0)
                         /\ ~enemy_reached_base
                         /\ player_count = 0 /\ enemy_count > 0
                g3 == IF timed
                      THEN [g2 EXCEPT !.defenseless_timer = g2.defenseless_timer + dt]
                      ELSE g2
                should_lose ==
                    \/ (g2.player_had_units /\ player_count = 0 /\ wm.current_wave > 0)
                    \/ enemy_reached_base
                    \/ (timed /\ g3.defenseless_timer >= DEFENSELESS_TIMEOUT)
                g4 == IF should_lose
                      THEN [g3 EXCEPT !.game_ended = TRUE, !.victory = FALSE]
                      ELSE g3
                wins == wm.current_wave >= 5 /\ enemy_count = 0 /\ ~wm.wave_active
                g5 == IF wins
                      THEN [g4 EXCEPT !.game_ended = TRUE, !.victory = TRUE,
                                      !.waves_completed = wm.current_wave]
                      ELSE g4
                triggered ==
                    (IF wave_complete
                     THEN <<[event |-> "WaveCompleteEvent", wave_number |-> wm.current_wave]>>
                     ELSE <<>>)
                    \o (IF should_lose
                        THEN <<[event |-> "GameOverEvent", victory |-> FALSE,
                                waves_survived |-> Max(wm.current_wave - 1, 0)]>>
                        ELSE <<>>)
                    \o (IF wins
                        THEN <<[event |-> "GameOverEvent", victory |-> TRUE,
                                waves_survived |-> wm.current_wave]>>
                        ELSE <<>>)
            IN /\ game_result' = g5
               /\ last' = [History("check_game_result") EXCEPT !.triggered = triggered]
    /\ Frame
    /\ UNCHANGED <<units, grid, nextId, wave_manager, phase, next_phase,
                   wave_break_timer, bombs, bomb_timer, synergies>>

check_game_result ==
    /\ Chain("check_game_result", "frame_end")
    /\ IF game_result.game_ended
       THEN UNCHANGED game_result /\ last' = History("check_game_result")
       ELSE LET player_count == Cardinality({e \in Live : units[e].team = "Player"})
                enemy_count == Cardinality({e \in Live : units[e].team = "Enemy"})
                enemy_reached_base ==
                    \E e \in Live : units[e].team = "Enemy" /\ units[e].pos.r <= -2
                wm == wave_manager
                g1 == IF player_count > 0
                      THEN [game_result EXCEPT !.player_had_units = TRUE,
                                               !.defenseless_timer = 0]
                      ELSE game_result
                wave_complete == wm.wave_active /\ enemy_count = 0 /\ wm.enemies_remaining = 0
                g2 == IF wave_complete
                      THEN [g1 EXCEPT !.waves_completed = wm.current_wave]
                      ELSE g1
                timed == ~(g2.player_had_units /\ player_count = 0 /\ wm.current_wave > 0)
                         /\ ~enemy_reached_base
                         /\ player_count = 0 /\ enemy_count > 0
                g3 == IF timed
                      THEN [g2 EXCEPT !.defenseless_timer = g2.defenseless_timer + dt]
                      ELSE g2
                should_lose ==
                    \/ (g2.player_had_units /\ player_count = 0 /\ wm.current_wave > 0)
                    \/ enemy_reached_base
                    \/ (timed /\ g3.defenseless_timer >= DEFENSELESS_TIMEOUT)
                g4 == IF should_lose
                      THEN [g3 EXCEPT !.game_ended = TRUE, !.victory = FALSE]
                      ELSE g3
                wins == wm.current_wave >= 10 /\ enemy_count = 0 /\ ~wm.wave_active
                g5 == IF wins
                      THEN [g4 EXCEPT !.game_ended = TRUE, !.victory = TRUE,
                                      !.waves_completed = wm.current_wave]
                      ELSE g4
                triggered ==
                    (IF wave_complete
                     THEN <<[event |-> "WaveCompleteEvent", wave_number |-> wm.current_wave]>>
                     ELSE <<>>)
                    \o (IF should_lose
                        THEN <<[event |-> "GameOverEvent", victory |-> FALSE,
                                waves_survived |-> Max(wm.current_wave - 1, 0)]>>
                        ELSE <<>>)
                    \o (IF wins
                        THEN <<[event |-> "GameOverEvent", victory |-> TRUE,
                                waves_survived |-> wm.current_wave]>>
                        ELSE <<>>)
            IN /\ game_result' = g5
               /\ last' = [History("check_game_result") EXCEPT !.triggered = triggered]
    /\ Frame
    /\ UNCHANGED <<units, grid, nextId, wave_manager, phase, next_phase,
                   wave_break_timer, bombs, bomb_timer, synergies>>

----------------------------------------------------------------------------
\* bridge/events.rs

\* The scenarios explored.  A match is <<tile type, tiles matched>>: 3 tiles
\* summon rank 1, 4 tiles add the skill orb of the tile type, 5 tiles summon
\* rank 2.  The mana is that of a combo of 18, or of 8 (50.0)
\* (calculate_mana_from_combo).
\* A run starts at construction, in the wave break that follows wave 5
\* (AfterWave), with two mages on the field (TwoMages), before the last
\* spawn of wave 5 (LastSpawn) or at the end of wave 10 (FinalWave).
\* `resumes`: the player presses Escape in the frame in which the game ends
\* and again in the pause menu.  handle_pause_input (ui/pause_menu.rs) is
\* not ordered against check_game_result, so its NextState Paused can
\* replace the GameOver that check_game_result has set; the second Escape
\* puts the state back to Playing and the battle systems run on.
Scenarios ==
    { [start |-> "construction", kinds |-> {<<"Red", 4>>},    mana |-> {10000},
       enemies |-> {"Yellow"}, deltas |-> {30}, resumes |-> FALSE],
      [start |-> "construction", kinds |-> {<<"Blue", 3>>},   mana |-> {5000, 10000},
       enemies |-> {"Red"}, deltas |-> {30}, resumes |-> FALSE],
      [start |-> "construction", kinds |-> {<<"Green", 4>>},  mana |-> {10000},
       enemies |-> {"Blue"}, deltas |-> {30}, resumes |-> FALSE],
      [start |-> "construction", kinds |-> {<<"Yellow", 5>>}, mana |-> {10000},
       enemies |-> {"Green"}, deltas |-> {30}, resumes |-> FALSE],
      [start |-> "construction", kinds |-> {<<"Purple", 4>>}, mana |-> {10000},
       enemies |-> {"Purple"}, deltas |-> {30}, resumes |-> FALSE],
      [start |-> "construction", kinds |-> {},                mana |-> {},
       enemies |-> {"Yellow"}, deltas |-> {90}, resumes |-> FALSE],
      [start |-> "wave_break",   kinds |-> {<<"Red", 4>>},    mana |-> {10000},
       enemies |-> {"Yellow"}, deltas |-> {30}, resumes |-> FALSE],
      [start |-> "two_mages",    kinds |-> {},                mana |-> {10000},
       enemies |-> {"Purple"}, deltas |-> {30}, resumes |-> FALSE],
      [start |-> "last_spawn",   kinds |-> {<<"Red", 4>>},    mana |-> {},
       enemies |-> {"Yellow"}, deltas |-> {30}, resumes |-> FALSE],
      [start |-> "last_spawn",   kinds |-> {},                mana |-> {},
       enemies |-> {"Yellow"}, deltas |-> {90}, resumes |-> FALSE],
      [start |-> "final_wave",   kinds |-> {<<"Red", 4>>},    mana |-> {},
       enemies |-> {"Yellow"}, deltas |-> {30}, resumes |-> FALSE],
      [start |-> "final_wave",   kinds |-> {},                mana |-> {},
       enemies |-> {"Yellow"}, deltas |-> {30}, resumes |-> TRUE],
      [start |-> "final_wave",   kinds |-> {<<"Green", 4>>},  mana |-> {},
       enemies |-> {"Yellow"}, deltas |-> {30}, resumes |-> FALSE],
      [start |-> "last_spawn",   kinds |-> {},                mana |-> {},
       enemies |-> {"Yellow"}, deltas |-> {90}, resumes |-> TRUE] }

OrbType(tile_type) ==
    CASE tile_type = "Red" -> "Meteor"
      [] tile_type = "Blue" -> "Buff"
      [] tile_type = "Green" -> "Heal"
      [] tile_type = "Yellow" -> "Buff"
      [] tile_type = "Purple" -> "Meteor"

\* spawn_unit_at: the entity is spawned and recorded in the grid.
spawn_unit_at(w, unit_type, star_rank, pos, team) ==
    [units |-> Spawn(w.units, w.id, NewUnit(unit_type, star_rank, pos, team)),
     grid |-> place_unit(w.grid, pos, w.id).units,
     id |-> w.id + 1]

\* summon_unit as it would be without the test star < 3.
summon_unit_merging_rank_three(w, unit_type, star_rank) ==
    LET same == {e \in DOMAIN w.units : w.units[e].utype = unit_type}
        low == {e \in same : \A o \in same : w.units[e].rank <= w.units[o].rank}
        fresh == IF find_empty_position(w.grid) = {} THEN {w}
                 ELSE {spawn_unit_at(w, unit_type, star_rank, pos, "Player") :
                          pos \in find_empty_position(w.grid)}
    IN IF Cardinality(low) >= 2
       THEN UNION {
              LET g2 == remove_unit(remove_unit(w.grid, w.units[e1].pos), w.units[e2].pos)
                  w2 == [units |-> Despawn(w.units, {e1, e2}), grid |-> g2, id |-> w.id]
              IN IF find_empty_position(g2) = {} THEN {w2}
                 ELSE {spawn_unit_at(w2, unit_type, w.units[e1].rank + 1, pos, "Player") :
                          pos \in find_empty_position(g2)}
              : <<e1, e2>> \in {p \in low \X low : p[1] # p[2]}}
       ELSE fresh

\* The outcomes of summon_unit on the world w = [units, grid, id]; e1, e2 are
\* the first two entries of same_type_units after the sort by rank.
summon_unit(w, unit_type, star_rank) ==
    LET same == {e \in DOMAIN w.units : w.units[e].utype = unit_type}
        low == {e \in same : \A o \in same : w.units[e].rank <= w.units[o].rank}
        fresh == IF find_empty_position(w.grid) = {} THEN {w}
                 ELSE {spawn_unit_at(w, unit_type, star_rank, pos, "Player") :
                          pos \in find_empty_position(w.grid)}
    IN IF Cardinality(low) >= 2 /\ (\A e \in low : w.units[e].rank < 3)
       THEN UNION {
              LET g2 == remove_unit(remove_unit(w.grid, w.units[e1].pos), w.units[e2].pos)
                  w2 == [units |-> Despawn(w.units, {e1, e2}), grid |-> g2, id |-> w.id]
              IN IF find_empty_position(g2) = {} THEN {w2}
                 ELSE {spawn_unit_at(w2, unit_type, w.units[e1].rank + 1, pos, "Player") :
                          pos \in find_empty_position(g2)}
              : <<e1, e2>> \in {p \in low \X low : p[1] # p[2]}}
       ELSE fresh

handle_skill_orb(us, orb_type) ==
    [e \in DOMAIN us |->
        LET u == us[e] IN
        CASE orb_type = "Buff" ->
               IF u.team = "Player" THEN [u EXCEPT !.attack = (u.attack * 12) \div 10] ELSE u
          [] orb_type = "Heal" ->
               IF u.team = "Player"
               THEN [u EXCEPT !.health = Min(u.health + (u.max_health * 3) \div 10, u.max_health)]
               ELSE u
          [] orb_type = "Meteor" ->
               IF u.team = "Enemy" THEN take_damage(u, 5000) ELSE u]

handle_mana_supply(us, amount) ==
    [e \in DOMAIN us |-> IF us[e].team = "Player" THEN gain_mana(us[e], amount) ELSE us[e]]

\* A MatchEvent: match_to_summon triggers the summon and, for 4 tiles or
\* more, the skill orb of the tile type.
Match ==
    /\ pc # "frame_end" /\ events < MaxEvents
    /\ nextId <= MaxEntities
    /\ events' = events + 1
    /\ \E kind \in scenario.kinds :
         LET tile_type == kind[1]
             count == kind[2]
         IN \E w \in summon_unit([units |-> units, grid |-> grid, id |-> nextId],
                                 tile_type, IF count >= 5 THEN 2 ELSE 1) :
               /\ units' = IF count >= 4
                           THEN handle_skill_orb(w.units, OrbType(tile_type))
                           ELSE w.units
               /\ grid' = w.grid
               /\ nextId' = w.id
    /\ last' = History("match")
    /\ UNCHANGED <<wave_manager, phase, next_phase, wave_break_timer, bombs,
                   bomb_timer, game_result,
                   synergies, pc, dt, buffDone, wbDone, frame, scenario, battle_stats>>

ManaSupply ==
    /\ pc # "frame_end" /\ events < MaxEvents
    /\ events' = events + 1
    /\ \E amount \in scenario.mana : units' = handle_mana_supply(units, amount)
    /\ last' = History("mana_supply")
    /\ UNCHANGED <<grid, nextId, wave_manager, phase, next_phase, wave_break_timer,
                   bombs, bomb_timer, game_result, synergies, pc, dt, buffDone, wbDone,
                   frame, scenario, battle_stats>>

----------------------------------------------------------------------------
\* placement.rs

\* The cells a click of the wave break lands on (pixel_to_axial).
ClickCells == {HexPosition(-3, -2), HexPosition(0, 0), HexPosition(3, 2), HexPosition(4, 0)}

\* placement_input_system with a player unit selected, and the observer
\* handle_unit_move it triggers: a click on a free cell of the grid in the
\* WaveBreak phase moves the selected unit there.
UnitMove ==
    /\ pc # "frame_end" /\ events < MaxEvents
    /\ phase = "WaveBreak"
    /\ events' = events + 1
    /\ \E entity \in {e \in Live : units[e].team = "Player"}, target_pos \in ClickCells :
         /\ is_valid_position(target_pos) /\ ~is_occupied(grid, target_pos)
         /\ LET old_pos == units[entity].pos
                r == move_unit(grid, old_pos, target_pos)
            IN /\ grid' = r.units
               /\ units' = IF r.ok THEN [units EXCEPT ![entity].pos = target_pos] ELSE units
               /\ last' = [History("unit_move") EXCEPT
                              !.moves = <<[entity |-> entity, from |-> old_pos,
                                           to |-> target_pos]>>]
    /\ UNCHANGED <<nextId, wave_manager, phase, next_phase, wave_break_timer,
                   bombs, bomb_timer, game_result, synergies, pc, dt, buffDone, wbDone,
                   frame, scenario, battle_stats>>

----------------------------------------------------------------------------
\* The state after construction (the resources' Default, an empty field).
Construction ==
    [units |-> << >>,
     grid |-> << >>,
     nextId |-> 1,
     wave_manager |-> [current_wave |-> 0, enemies_remaining |-> 0, wave_timer |-> 180,
                       spawn_delay |-> 0, wave_active |-> FALSE],
     phase |-> "Idle",
     wave_break_timer |-> WAVE_BREAK_DURATION,
     bombs |-> [c \in 0 .. BombCountdown |-> 0],
     bomb_timer |-> 0,
     game_result |-> [game_ended |-> FALSE, victory |-> FALSE, waves_completed |-> 0,
                      player_had_units |-> FALSE, defenseless_timer |-> 0],
     synergies |-> [t \in TileTypes |-> "None"]]

\* The last second of the wave break that follows wave 5: the match that
\* cleared the wave merged the two Red units of the field into one of rank 2
\* (summon_unit), which has run its attack_system once; a bomb that an enemy
\* attack of the wave put on the board is about to go off.
AfterWave ==
    [units |-> (1 :> [NewUnit("Red", 2, HexPosition(-3, -2), "Player") EXCEPT
                         !.cooldown = 6000 \div 120]),
     grid |-> (HexPosition(-3, -2) :> 1),
     nextId |-> 2,
     wave_manager |-> [current_wave |-> 5, enemies_remaining |-> 0, wave_timer |-> 510,
                       spawn_delay |-> 48, wave_active |-> FALSE],
     phase |-> "WaveBreak",
     wave_break_timer |-> 60,
     bombs |-> [c \in 0 .. BombCountdown |-> IF c = 0 THEN 1 ELSE 0],
     bomb_timer |-> 60,
     game_result |-> [game_ended |-> FALSE, victory |-> FALSE, waves_completed |-> 0,
                      player_had_units |-> TRUE, defenseless_timer |-> 0],
     synergies |-> [t \in TileTypes |-> "None"]]

\* The end of the first frame when the board has reported two 4-tile Purple
\* matches before the frame's attack step: two Purple units of rank 1 on the
\* first two free cells, their cooldowns reset by attack_system, the Bronze
\* Purple synergy recorded and applied once.
TwoMages ==
    [Construction EXCEPT
        !.units = (1 :> [NewUnit("Purple", 1, HexPosition(-3, -2), "Player") EXCEPT
                            !.cooldown = 6000 \div 100, !.mana_regen = 1200])
                  @@ (2 :> [NewUnit("Purple", 1, HexPosition(-3, -1), "Player") EXCEPT
                               !.cooldown = 6000 \div 100, !.mana_regen = 1200]),
        !.grid = (HexPosition(-3, -2) :> 1) @@ (HexPosition(-3, -1) :> 2),
        !.nextId = 3,
        !.wave_manager.wave_timer = 150,
        !.bomb_timer = 30,
        !.game_result.player_had_units = TRUE,
        !.synergies = [t \in TileTypes |-> IF t = "Purple" THEN "Bronze" ELSE "None"]]

\* Wave 5 with one enemy left to spawn and none on the field: the waves
\* have followed one another without a break; the player's Red unit of
\* rank 2 has attacked once and is down to 20 health.
LastSpawn ==
    [Construction EXCEPT
        !.units = (1 :> [NewUnit("Red", 2, HexPosition(-3, -2), "Player") EXCEPT
                            !.cooldown = 6000 \div 120, !.health = 2000]),
        !.grid = (HexPosition(-3, -2) :> 1),
        !.nextId = 2,
        !.wave_manager = [current_wave |-> 5, enemies_remaining |-> 1, wave_timer |-> 600,
                          spawn_delay |-> 18, wave_active |-> TRUE],
        !.game_result.player_had_units = TRUE]

\* The last wave is out (wave 10, its spawner switched off), and one Red
\* unit of the player faces the last Yellow enemy, both worn down by the
\* attacks they exchanged when they were spawned and by the bombs of the
\* wave; one more bomb on the board is about to go off.
FinalWave ==
    [Construction EXCEPT
        !.units = (1 :> [NewUnit("Red", 1, HexPosition(-3, -2), "Player") EXCEPT
                            !.cooldown = 6000 \div 120, !.health = 200, !.target = 2])
                  @@ (2 :> [NewUnit("Yellow", 1, HexPosition(-3, -1), "Enemy") EXCEPT
                               !.cooldown = 6000 \div 150, !.health = 500, !.target = 1]),
        !.grid = (HexPosition(-3, -2) :> 1) @@ (HexPosition(-3, -1) :> 2),
        !.nextId = 3,
        !.wave_manager = [current_wave |-> 10, enemies_remaining |-> 0, wave_timer |-> 600,
                          spawn_delay |-> 48, wave_active |-> FALSE],
        !.bombs = [c \in 0 .. BombCountdown |-> IF c = 0 THEN 1 ELSE 0],
        !.bomb_timer = 60,
        !.game_result.player_had_units = TRUE]

Start(s) ==
    CASE s.start = "construction" -> Construction
      [] s.start = "final_wave" -> FinalWave
      [] s.start = "last_spawn" -> LastSpawn
      [] s.start = "wave_break" -> AfterWave
      [] s.start = "two_mages" -> TwoMages

Init ==
    /\ scenario \in Scenarios
    /\ units = Start(scenario).units
    /\ grid = Start(scenario).grid
    /\ nextId = Start(scenario).nextId
    /\ wave_manager = Start(scenario).wave_manager
    /\ phase = Start(scenario).phase
    /\ next_phase = ""
    /\ wave_break_timer = Start(scenario).wave_break_timer
    /\ bombs = Start(scenario).bombs
    /\ bomb_timer = Start(scenario).bomb_timer
    /\ game_result = Start(scenario).game_result
    /\ synergies = Start(scenario).synergies
    /\ pc = "frame_end"
    /\ dt = 0
    /\ buffDone = TRUE
    /\ wbDone = TRUE
    /\ frame = 0
    /\ events = 0
    /\ battle_stats = NewBattleStats
    /\ last = [kind |-> "init", pre |-> Start(scenario).units,
               pregrid |-> Start(scenario).grid,
               prewave |-> Start(scenario).wave_manager,
               preresult |-> Start(scenario).game_result,
               presyn |-> Start(scenario).synergies, triggered |-> <<>>, summon |-> <<>>, obstacles |-> <<>>,
               attacks |-> {}, moves |-> <<>>, casters |-> {}, removed |-> {}]

Next ==
    \/ BeginFrame
    \/ wave_spawner_system
    \/ bomb_countdown_system
    \/ check_wave_complete_system
    \/ targeting_system
    \/ movement_system
    \/ attack_system
    \/ ability_system
    \/ death_system
    \/ update_synergies
    \/ apply_synergy_bonuses
    \/ check_game_result
    \/ buff_timer_system
    \/ wave_break_timer_system
    \/ Match
    \/ ManaSupply
    \/ UnitMove

Spec == Init /\ [][Next]_vars

\* The runs that start in the wave break while the puzzle board reports
\* nothing: the systems of the Update schedule, frame after frame for as
\* long as the game has not ended (the app runs the schedule every frame, so
\* the frames are not counted here).
InitWaveBreak == Init /\ scenario.start = "wave_break"

BeginFrameUncounted ==
    /\ pc = "frame_end"
    /\ (~game_result.game_ended \/ scenario.resumes)
    /\ pc' = "wave_spawner"
    /\ dt' \in Deltas \cap scenario.deltas
    /\ buffDone' = FALSE /\ wbDone' = FALSE
    /\ phase' = IF next_phase = "" THEN phase ELSE next_phase
    /\ next_phase' = ""
    /\ last' = History("begin_frame")
    /\ UNCHANGED <<units, grid, nextId, wave_manager, wave_break_timer, bombs,
                   bomb_timer, game_result,
                   synergies, events, scenario, battle_stats, frame>>

NextWaveBreak ==
    \/ BeginFrameUncounted
    \/ wave_spawner_system
    \/ bomb_countdown_system
    \/ check_wave_complete_system
    \/ targeting_system
    \/ movement_system
    \/ attack_system
    \/ ability_system
    \/ death_system
    \/ update_synergies
    \/ apply_synergy_bonuses
    \/ check_game_result
    \/ buff_timer_system
    \/ wave_break_timer_system

SpecWaveBreak == InitWaveBreak /\ [][NextWaveBreak]_vars /\ WF_vars(NextWaveBreak)

----------------------------------------------------------------------------
\* The BattleGrid on its own: its three operations called with any cell
\* (in or out of bounds) and any entity.

GridCells == {HexPosition(-3, -2), HexPosition(0, 0), HexPosition(3, 2),
              HexPosition(4, 0), HexPosition(0, 3)}
GridEntities == 1 .. 2

GridCall(kind, from, to, ok) ==
    [kind |-> kind, pre |-> units, pregrid |-> grid, from |-> from, to |-> to, ok |-> ok]

GridFrame == UNCHANGED <<units, nextId, wave_manager, phase, next_phase, wave_break_timer,
                         bombs, bomb_timer, game_result, synergies, pc, dt, buffDone,
                         wbDone, frame, events, scenario, battle_stats>>

PlaceUnit ==
    /\ \E pos \in GridCells, entity \in GridEntities :
         LET r == place_unit(grid, pos, entity)
         IN grid' = r.units /\ last' = GridCall("place_unit", pos, pos, r.ok)
    /\ GridFrame

RemoveUnit ==
    /\ \E pos \in GridCells :
         grid' = remove_unit(grid, pos) /\ last' = GridCall("remove_unit", pos, pos, TRUE)
    /\ GridFrame

MoveUnit ==
    /\ \E from \in GridCells, to \in GridCells :
         LET r == move_unit(grid, from, to)
         IN grid' = r.units /\ last' = GridCall("move_unit", from, to, r.ok)
    /\ GridFrame

InitGrid ==
    /\ Init
    /\ scenario.start = "construction"
    /\ scenario.kinds = {<<"Red", 4>>}

NextGrid == PlaceUnit \/ RemoveUnit \/ MoveUnit

SpecGrid == InitGrid /\ [][NextGrid]_vars

----------------------------------------------------------------------------
\* The synergy systems on their own, run on any roster: up to MaxRoster Red
\* and up to two Blue units of the player (rank 3, which no summon merges),
\* up to two Red enemies, and the ActiveSynergies map that the frame before
\* left.

RosterCell(i) == HexPosition(((i - 1) \div 3) - 3, ((i - 1) % 3) - 2)
EnemyCell(i) == HexPosition(i - 4, 1)

RosterUnits(reds, blues, enemies) ==
    [i \in 1 .. reds + blues + enemies |->
        IF i <= reds THEN NewUnit("Red", 3, RosterCell(i), "Player")
        ELSE IF i <= reds + blues THEN NewUnit("Blue", 3, RosterCell(i), "Player")
        ELSE NewUnit("Red", 1, EnemyCell(i - reds - blues), "Enemy")]

RosterMaps ==
    { [t \in TileTypes |-> "None"],
      [t \in TileTypes |-> IF t = "Red" THEN "Gold" ELSE "None"],
      [t \in TileTypes |-> IF t = "Blue" THEN "Bronze" ELSE "None"] }

InitRoster ==
    /\ scenario = [start |-> "last_spawn", kinds |-> {}, mana |-> {},
                   enemies |-> {"Red"}, deltas |-> {30}, resumes |-> FALSE]
    /\ \E reds \in 0 .. MaxRoster, blues \in 0 .. 2, enemies \in 0 .. 2 :
          /\ units = RosterUnits(reds, blues, enemies)
          /\ grid = [p \in {units[i].pos : i \in DOMAIN units} |->
                        CHOOSE i \in DOMAIN units : units[i].pos = p]
          /\ nextId = reds + blues + enemies + 1
    /\ synergies \in RosterMaps
    /\ wave_manager = [LastSpawn.wave_manager EXCEPT !.enemies_remaining = 0]
    /\ phase = "Idle"
    /\ next_phase = ""
    /\ wave_break_timer = LastSpawn.wave_break_timer
    /\ bombs = LastSpawn.bombs
    /\ bomb_timer = LastSpawn.bomb_timer
    /\ game_result = LastSpawn.game_result
    /\ pc = "update_synergies"
    /\ dt = 30
    /\ buffDone = TRUE
    /\ wbDone = TRUE
    /\ frame = 1
    /\ events = 0
    /\ battle_stats = NewBattleStats
    /\ last = [kind |-> "init", pre |-> units, pregrid |-> grid,
               prewave |-> wave_manager, preresult |-> game_result,
               presyn |-> synergies, triggered |-> <<>>, summon |-> <<>>, obstacles |-> <<>>,
               attacks |-> {}, moves |-> <<>>, casters |-> {}, removed |-> {}]

NextRoster == update_synergies \/ apply_synergy_bonuses \/ check_game_result

SpecRoster == InitRoster /\ [][NextRoster]_vars

----------------------------------------------------------------------------
\* summon_unit on its own, run on any field: up to MaxSameRank Red units of
\* the player of each rank, Red enemies of the ranks the spawner draws (up
\* to MaxSameRank of rank 1, at most one of rank 2), and the rest of the
\* player half either empty or filled with Blue units of rank 3.

PlayerCells == Cardinality({p \in {HexPosition(q, r) :
                                      q \in -(BATTLE_GRID_COLS \div 2) .. BATTLE_GRID_COLS \div 2,
                                      r \in -(BATTLE_GRID_ROWS \div 2) .. 0} :
                               is_valid_position(p)})

SummonField(n1, n2, n3, m1, m2, full) ==
    LET reds == n1 + n2 + n3
        players == IF full THEN PlayerCells ELSE reds
    IN [i \in 1 .. players + m1 + m2 |->
          IF i <= n1 THEN NewUnit("Red", 1, RosterCell(i), "Player")
          ELSE IF i <= n1 + n2 THEN NewUnit("Red", 2, RosterCell(i), "Player")
          ELSE IF i <= reds THEN NewUnit("Red", 3, RosterCell(i), "Player")
          ELSE IF i <= players THEN NewUnit("Blue", 3, RosterCell(i), "Player")
          ELSE IF i <= players + m1 THEN NewUnit("Red", 1, EnemyCell(i - players), "Enemy")
          ELSE NewUnit("Red", 2, EnemyCell(i - players), "Enemy")]

InitSummon ==
    /\ scenario = [start |-> "last_spawn", kinds |-> {}, mana |-> {},
                   enemies |-> {"Red"}, deltas |-> {30}, resumes |-> FALSE]
    /\ \E n1 \in 0 .. MaxSameRank, n2 \in 0 .. MaxSameRank, n3 \in 0 .. MaxSameRank,
          m1 \in 0 .. MaxSameRank, m2 \in 0 .. 1, full \in BOOLEAN :
          /\ (m1 > 0 => 1 \in UNION {enemy_star_rank(w) : w \in 1 .. 10})
          /\ (m2 > 0 => 2 \in UNION {enemy_star_rank(w) : w \in 1 .. 10})
          /\ units = SummonField(n1, n2, n3, m1, m2, full)
          /\ grid = [p \in {units[i].pos : i \in DOMAIN units} |->
                        CHOOSE i \in DOMAIN units : units[i].pos = p]
          /\ nextId = Len(units) + 1
    /\ synergies = LastSpawn.synergies
    /\ wave_manager = LastSpawn.wave_manager
    /\ phase = "Idle"
    /\ next_phase = ""
    /\ wave_break_timer = LastSpawn.wave_break_timer
    /\ bombs = LastSpawn.bombs
    /\ bomb_timer = LastSpawn.bomb_timer
    /\ game_result = LastSpawn.game_result
    /\ pc = "wave_spawner"
    /\ dt = 30
    /\ buffDone = TRUE
    /\ wbDone = TRUE
    /\ frame = 1
    /\ events = 0
    /\ battle_stats = NewBattleStats
    /\ last = [kind |-> "init", pre |-> units, pregrid |-> grid,
               prewave |-> wave_manager, preresult |-> game_result,
               presyn |-> synergies, triggered |-> <<>>, summon |-> <<>>, obstacles |-> <<>>,
               attacks |-> {}, moves |-> <<>>, casters |-> {}, removed |-> {}]

\* A UnitSummonEvent handled by summon_unit.
UnitSummon ==
    /\ events < MaxEvents
    /\ events' = events + 1
    /\ \E unit_type \in {"Red"}, star_rank \in {1, 2} :
         /\ \E w \in summon_unit([units |-> units, grid |-> grid, id |-> nextId],
                                 unit_type, star_rank) :
               /\ units' = w.units
               /\ grid' = w.grid
               /\ nextId' = w.id
         /\ last' = [History("summon") EXCEPT
                        !.summon = [unit_type |-> unit_type, star_rank |-> star_rank]]
    /\ UNCHANGED <<wave_manager, phase, next_phase, wave_break_timer, bombs,
                   bomb_timer, game_result,
                   synergies, pc, dt, buffDone, wbDone, frame, scenario, battle_stats>>

SpecSummon == InitSummon /\ [][UnitSummon]_vars

----------------------------------------------------------------------------
\* BattleStats on its own: the three recording calls in any sequence, with
\* the kills and the damage of each ally type kept within MaxKills and
\* MaxDamage.

AllyTypes == {"Green", "Red", "Purple"}
Damages == {0, 10000, 50000}

InitStats ==
    /\ InitSummon
    /\ units = << >>

StatsWithin(bs) ==
    \A t \in DOMAIN bs.ally_performance_map :
        /\ bs.ally_performance_map[t].kills <= MaxKills
        /\ bs.ally_performance_map[t].damage <= MaxDamage

StatsFrame ==
    /\ UNCHANGED <<units, grid, nextId, synergies, wave_manager, phase, next_phase,
                   wave_break_timer, bombs, bomb_timer, game_result, pc, dt,
                   buffDone, wbDone, frame, events, scenario>>
    /\ last' = History("battle_stats")

RecordAllyKill ==
    /\ \E unit_type \in AllyTypes, damage \in Damages :
         \E bs \in record_ally_kill(battle_stats, unit_type, damage) :
            /\ StatsWithin(bs)
            /\ battle_stats' = bs
    /\ StatsFrame

RecordAllyDamage ==
    /\ \E unit_type \in AllyTypes, damage \in Damages :
         \E bs \in record_ally_damage(battle_stats, unit_type, damage) :
            /\ StatsWithin(bs)
            /\ battle_stats' = bs
    /\ StatsFrame

RecordKillForTopAlly ==
    /\ \E bs \in record_kill_for_top_ally(battle_stats) :
         /\ StatsWithin(bs)
         /\ battle_stats' = bs
    /\ StatsFrame

NextStats == RecordAllyKill \/ RecordAllyDamage \/ RecordKillForTopAlly

SpecStats == InitStats /\ [][NextStats]_vars

----------------------------------------------------------------------------
\* Properties.  `last` holds what the step just taken did and the units and
\* the grid it started from.

Pre == last.pre

\* C1: the battle grid is a bijection between its occupied cells and the live
\* units: every occupied cell is in bounds and holds a live unit whose
\* HexPosition is that cell, and every live unit is recorded at its own
\* HexPosition (so at exactly one cell, and no two units share a cell).
C1_GridBijection ==
    /\ \A p \in DOMAIN grid :
         /\ is_valid_position(p)
         /\ p.q \in -3 .. 3 /\ p.r \in -2 .. 2
         /\ grid[p] \in Live
         /\ units[grid[p]].pos = p
    /\ \A e \in Live : units[e].pos \in DOMAIN grid /\ grid[units[e].pos] = e
    /\ Cardinality(DOMAIN grid) = Cardinality(Live)

\* A movement step has moved a unit on a field of at least three units.
C1_Witness ==
    /\ last.kind = "movement"
    /\ \E i \in 1 .. Len(last.moves) : units[last.moves[i].entity].pos = last.moves[i].to
    /\ Cardinality(Live) >= 3

C3_NoDeadAtEndOfTick ==
    pc = "frame_end" =>
        /\ \A e \in Live : ~is_dead(units[e])
        /\ \A p \in DOMAIN grid : grid[p] \in Live /\ ~is_dead(units[grid[p]])

\* C4: every live unit has 0 <= health <= max_health, 0 <= mana <= max_mana
\* and attack_range >= 0.
C4_StatBounds ==
    \A e \in Live :
        /\ 0 <= units[e].health /\ units[e].health <= units[e].max_health
        /\ 0 <= units[e].mana /\ units[e].mana <= units[e].max_mana
        /\ units[e].attack_range >= 0

\* A mana supply of 100 has filled the 80 mana of a Purple unit that an attack
\* or a meteor has hurt.
C4_Witness ==
    \E e \in Live :
        /\ units[e].utype = "Purple"
        /\ units[e].team = "Player"
        /\ units[e].mana = units[e].max_mana
        /\ units[e].health < units[e].max_health

\* C5: an attack of raw damage D on a target of defense d takes
\* max(D * (1 - min(d / 100, 0.8)), 1) from the target's health, clamped at 0
\* (stated for the targets that one attack of the step hits).
C5_AttackUsesPercentageDefense ==
    last.kind = "attack" =>
        \A a \in last.attacks :
            (/\ a.target \in DOMAIN Pre
             /\ \A b \in last.attacks : b.target = a.target => b = a)
            => units[a.target].health = take_calculated_damage(Pre[a.target], a.damage).health

\* C6: after the targeting step every unit's target is none exactly when no
\* unit of the other team is without a StealthBuff, and otherwise a unit of
\* the other team without a StealthBuff at minimal hex distance; never the
\* unit itself nor a unit of its own team.
C6_Opposing(e) == {o \in DOMAIN Pre \ {e} : Pre[o].team # Pre[e].team /\ Pre[o].stealth = NoBuff}

C7_StealthEndsWhenRemainingIsZero ==
    last.kind = "targeting" =>
        \A e \in Live :
            /\ units[e].target # 0 => Pre[units[e].target].stealth <= 0
            /\ (\E o \in DOMAIN Pre \ {e} : Pre[o].team # Pre[e].team /\ Pre[o].stealth <= 0)
                  => units[e].target # 0

\* C8: in the movement step a unit without a target, or within attack_range
\* of its target, stays; any other unit stays or steps to one of its six
\* neighbor cells, in bounds and unoccupied, of minimal distance to the
\* target among its in-bounds unoccupied neighbors.
C8_Free(e) == {n \in {neighbors(Pre[e].pos)[i] : i \in 1 .. 6} :
                  is_valid_position(n) /\ n \notin DOMAIN last.pregrid}

C8_MovementStep ==
    last.kind = "movement" =>
        \A e \in Live :
            LET u == Pre[e]
                has_target == u.target # 0 /\ u.target \in DOMAIN Pre
            IN \/ units[e].pos = u.pos
               \/ /\ has_target
                  /\ distance(u.pos, Pre[u.target].pos) > u.attack_range
                  /\ units[e].pos \in C8_Free(e)
                  /\ \A n \in C8_Free(e) :
                       distance(units[e].pos, Pre[u.target].pos)
                           <= distance(n, Pre[u.target].pos)

\* A unit out of range has stepped to a neighbor cell, another unit within
\* range of its target has stayed.
C8_Witness ==
    /\ last.kind = "movement"
    /\ \E e \in Live : units[e].pos # Pre[e].pos /\ Cardinality(C8_Free(e)) >= 2
    /\ \E e \in Live :
          /\ Pre[e].target \in DOMAIN Pre
          /\ distance(Pre[e].pos, Pre[Pre[e].target].pos) <= Pre[e].attack_range

\* C9: in the attack step a unit attacks exactly when its cooldown is <= 0
\* at the start of the step and it has a target; after its attack its
\* cooldown is 1 / attack_speed; a unit that did not attack only counts its
\* cooldown down by the frame time.
C9_CooldownResetOnlyByAttack ==
    last.kind = "attack" =>
        \A e \in Live :
            LET attacked == \E a \in last.attacks : a.attacker = e
            IN /\ attacked <=> (Pre[e].cooldown <= 0 /\ Pre[e].target # 0)
               /\ attacked => units[e].cooldown = 6000 \div units[e].attack_speed
               /\ ~attacked => units[e].cooldown = Pre[e].cooldown - dt

\* C10: the attack of a unit that carries a SnipeBuff deals
\* attack x (1.5 if crit) x (1.2 with a RageBuff) x 2 and removes the
\* SnipeBuff; an attack without a SnipeBuff is not doubled; and a SnipeBuff
\* leaves a unit only in the attack step in which the unit attacks.
C10_SnipeDoublesOneAttack ==
    /\ last.kind = "attack" =>
         \A a \in last.attacks :
            LET u == Pre[a.attacker]
                crit == IF a.is_crit THEN (u.attack * 15) \div 10 ELSE u.attack
                rage == IF u.rage # NoBuff THEN (crit * 12) \div 10 ELSE crit
            IN /\ a.damage = IF u.snipe THEN rage * 2 ELSE rage
               /\ ~units[a.attacker].snipe
    /\ \A e \in Live \cap DOMAIN Pre :
         (Pre[e].snipe /\ ~units[e].snipe)
            => (last.kind = "attack" /\ \E a \in last.attacks : a.attacker = e)

\* A unit that carried a SnipeBuff has attacked.
C10_Witness ==
    /\ last.kind = "attack"
    /\ \E a \in last.attacks : Pre[a.attacker].snipe /\ ~units[a.attacker].snipe

\* C11: in the ability step a unit casts exactly when its mana is >= max_mana
\* at the start of the step; a caster ends the step with mana 0 whatever its
\* archetype (a Green caster with its SnipeBuff, a Blue caster healed by 20%
\* of max_health); the mana of a unit that does not cast is unchanged by the
\* step; and the mana of a unit never drops except to 0 by its cast, so that
\* the next cast needs a refill from 0 to max_mana.
C11_CastResetsMana ==
    /\ last.kind = "ability" =>
         \A e \in Live :
            IF Pre[e].mana >= Pre[e].max_mana
            THEN /\ e \in last.casters
                 /\ units[e].mana = 0
                 /\ Pre[e].utype = "Green" => units[e].snipe
                 /\ (Pre[e].utype = "Blue" /\ Pre[e].team = "Player") =>
                      units[e].health = Min(Pre[e].health + (Pre[e].max_health * 2) \div 10,
                                            Pre[e].max_health)
            ELSE /\ e \notin last.casters
                 /\ units[e].mana = Pre[e].mana
    /\ \A e \in Live \cap DOMAIN Pre :
         units[e].mana < Pre[e].mana =>
            /\ last.kind = "ability"
            /\ e \in last.casters
            /\ units[e].mana = 0

\* An ability step in which one unit with a full mana bar has cast and
\* another unit, short of mana, has not.
C11_Witness ==
    /\ last.kind = "ability"
    /\ \E e \in Live : e \in last.casters /\ Pre[e].mana = Pre[e].max_mana /\ units[e].mana = 0
    /\ \E e \in Live : e \notin last.casters /\ Pre[e].mana < Pre[e].max_mana

\* C12: in the ability step a unit that faces k casting mages (Purple casters
\* of the other team) loses exactly 15 * k health, clamped at 0, and a unit
\* that faces none keeps its health: the units of a casting mage's own team
\* are untouched by its cast.  (A Blue caster then heals, see C11.)
C12_Mages(e) == {c \in last.casters : Pre[c].utype = "Purple" /\ Pre[c].team # Pre[e].team}

C12_MeteorHitsOpponents ==
    last.kind = "ability" =>
        \A e \in Live :
            (e \notin last.casters \/ Pre[e].utype # "Blue") =>
                units[e].health =
                    Max(Pre[e].health - MeteorDamage * Cardinality(C12_Mages(e)), 0)

\* Two mages of one team have cast in the same step: their opponent has lost
\* 30 health and the mages' own health is unchanged.
C12_Witness ==
    /\ last.kind = "ability"
    /\ \E e \in Live :
          /\ Cardinality(C12_Mages(e)) = 2
          /\ units[e].health = Pre[e].health - 2 * MeteorDamage
          /\ \A c \in C12_Mages(e) : units[c].health = Pre[c].health

\* C13: the RageBuff a cast gives lasts 5 seconds of ticks and the
\* StealthBuff 3 seconds: a caster leaves the ability step with the buff at
\* its full duration; each run of the buff timer lowers `remaining` by the
\* frame time, never below 0; nothing else changes `remaining`; a buff with
\* time left stays on its unit; and a buff whose `remaining` has reached 0 is
\* gone by the end of that tick.
C13_BuffDurations ==
    /\ last.kind = "ability" =>
         \A e \in Live \cap last.casters :
            /\ Pre[e].utype = "Red" => units[e].rage = RageDuration
            /\ Pre[e].utype = "Yellow" => units[e].stealth = StealthDuration
    /\ last.kind = "buff_timer" =>
         \A e \in Live :
            /\ units[e].rage = IF Pre[e].rage = NoBuff THEN NoBuff
                               ELSE Max(Pre[e].rage - dt, 0)
            /\ units[e].stealth = IF Pre[e].stealth = NoBuff THEN NoBuff
                                  ELSE Max(Pre[e].stealth - dt, 0)
            /\ units[e].rage >= NoBuff /\ units[e].stealth >= NoBuff
    /\ \A e \in Live \cap DOMAIN Pre :
         /\ Pre[e].rage > 0 => units[e].rage # NoBuff
         /\ Pre[e].stealth > 0 => units[e].stealth # NoBuff
         /\ (last.kind \notin {"buff_timer", "ability"}) =>
               /\ units[e].rage \in {Pre[e].rage, NoBuff}
               /\ units[e].stealth \in {Pre[e].stealth, NoBuff}
    /\ pc = "frame_end" =>
         \A e \in Live : units[e].rage # 0 /\ units[e].stealth # 0

C15_Spawned == Live \ DOMAIN Pre

C15_SpawnOnePerTick ==
    /\ last.kind = "wave_spawner" =>
         /\ Cardinality(C15_Spawned) <= 1
         /\ \A e \in C15_Spawned :
               /\ last.prewave.wave_active /\ phase # "WaveBreak"
               /\ last.prewave.enemies_remaining > 0
               /\ last.prewave.spawn_delay - dt <= 0
               /\ units[e].team = "Enemy"
               /\ units[e].pos.r >= 1
               /\ is_valid_position(units[e].pos)
               /\ units[e].pos \notin DOMAIN last.pregrid
               /\ grid[units[e].pos] = e
               /\ wave_manager.enemies_remaining = last.prewave.enemies_remaining - 1
               /\ wave_manager.spawn_delay = 48
               /\ wave_manager.wave_active
         /\ (C15_Spawned = {} /\ last.prewave.wave_active) =>
               wave_manager.enemies_remaining = last.prewave.enemies_remaining
         /\ (/\ last.prewave.wave_active /\ phase # "WaveBreak"
             /\ last.prewave.enemies_remaining > 0
             /\ last.prewave.spawn_delay - dt <= 0
             /\ \E q \in -3 .. 3, r \in 1 .. 2 : HexPosition(q, r) \notin DOMAIN last.pregrid)
               => C15_Spawned # {}
    /\ last.kind # "wave_spawner" =>
         /\ \A e \in C15_Spawned : units[e].team = "Player"
         /\ wave_manager.enemies_remaining = last.prewave.enemies_remaining
         /\ wave_manager.wave_active = last.prewave.wave_active
    /\ wave_manager.enemies_remaining >= 0
    /\ wave_manager.wave_active =>
         wave_manager.enemies_remaining <= Min(3 + 2 * wave_manager.current_wave, 12)
    /\ (last.prewave.wave_active /\ ~wave_manager.wave_active) =>
         /\ last.kind = "wave_spawner"
         /\ last.prewave.enemies_remaining = 0
         /\ C15_Spawned = {}

\* The spawner has spawned the last enemy of a wave on a field that holds
\* another unit.
C15_Witness ==
    /\ last.kind = "wave_spawner"
    /\ C15_Spawned # {}
    /\ wave_manager.enemies_remaining = 0
    /\ Cardinality(Live) >= 2

\* C16: the WaveBreak phase is requested only when no wave is active,
\* enemies_remaining = 0, a wave has started and no Enemy unit lives; while
\* it lasts the spawner changes nothing (no spawn, no countdown of the wave
\* timer); when its timer has elapsed the phase returns to Idle; and from
\* there the wave countdown runs and the next wave starts (or the game ends
\* first).
C16_EntryAndPause ==
    /\ next_phase = "WaveBreak" =>
         /\ ~wave_manager.wave_active
         /\ wave_manager.enemies_remaining = 0
         /\ wave_manager.current_wave > 0
         /\ \A e \in Live : units[e].team # "Enemy"
    /\ (phase = "WaveBreak" /\ last.kind = "wave_spawner") =>
         /\ wave_manager = last.prewave
         /\ Live = DOMAIN Pre
    /\ (phase = "WaveBreak" /\ last.kind = "wave_break_timer" /\ wave_break_timer <= 0) =>
         next_phase = "Idle"

C16_WaveBreakEndsInNextWave ==
    /\ []C16_EntryAndPause
    /\ (phase = "WaveBreak" /\ wave_break_timer <= 60)
          ~> (wave_manager.wave_active \/ game_result.game_ended)

\* C17: after update_synergies the level recorded for every archetype is the
\* level of the number n of live Player units of that archetype (n <= 1
\* None, 2-3 Bronze, 4-5 Silver, >= 6 Gold), whatever the Enemy units on the
\* field and whatever the map held before; so a second run on the same units
\* yields the same map.
C17_Count(t) == Cardinality({e \in Live : units[e].team = "Player" /\ units[e].utype = t})

C17_SynergyLevels ==
    last.kind = "update_synergies" =>
        \A t \in TileTypes :
              /\ C17_Count(t) <= 1 => synergies[t] = "None"
              /\ C17_Count(t) \in {2, 3} => synergies[t] = "Bronze"
              /\ C17_Count(t) \in {4, 5} => synergies[t] = "Silver"
              /\ C17_Count(t) >= 6 => synergies[t] = "Gold"

\* update_synergies has run on five Red units of the player and two Red
\* enemies, over a map that held Gold for Red: the level is Silver.
C17_Witness ==
    /\ last.kind = "update_synergies"
    /\ C17_Count("Red") = 5
    /\ Cardinality({e \in Live : units[e].team = "Enemy" /\ units[e].utype = "Red"}) = 2
    /\ last.presyn["Red"] = "Gold"
    /\ synergies["Red"] = "Silver"

\* C18: synergy bonuses do not compound.  While the player's roster is the
\* one the match segment started with, every application leaves a Player
\* unit's synergy-only stats (max_health, defense, attack_range,
\* attack_speed, crit_chance, ability_power, mana_regen; attack and health
\* are also written by combat and orbs) at the bonus applied once to the
\* base values of its archetype and rank.
C18_Roster(us) == {e \in DOMAIN us : us[e].team = "Player"}

C18_Stats(u) == <<u.max_health, u.defense, u.attack_range, u.attack_speed,
                  u.crit_chance, u.ability_power, u.mana_regen>>

C18_NoCompounding ==
    (last.kind = "apply_synergy_bonuses" /\ C18_Roster(units) = C18_Roster(Start(scenario).units)) =>
        \A e \in C18_Roster(units) :
            C18_Stats(units[e]) =
                C18_Stats(SynergyBonus(NewUnit(units[e].utype, units[e].rank,
                                               units[e].pos, units[e].team),
                                       synergies[units[e].utype]))

\* C19: an evaluation of check_game_result that finds the game not ended,
\* the player with no unit left after having had one (player_had_units set
\* by an earlier evaluation) and current_wave > 0 ends the game as a loss.
C19_LossWhenWipedOut ==
    (/\ last.kind = "check_game_result"
     /\ ~last.preresult.game_ended
     /\ last.preresult.player_had_units
     /\ {e \in Live : units[e].team = "Player"} = {}
     /\ wave_manager.current_wave > 0)
        => (game_result.game_ended /\ ~game_result.victory)

\* C20: in an evaluation of check_game_result with the game not ended, the
\* defenseless timer grows (by the frame time) only when the player has no
\* unit and an enemy exists, is 0 whenever the player has a unit, the game
\* is lost in the evaluation where the timer reaches 5.0 s, and a loss that
\* has no other cause (player wiped out after having had units, enemy at the
\* base row) comes only with the timer at 5.0 s or more.
C20_Players == {e \in Live : units[e].team = "Player"}
C20_Enemies == {e \in Live : units[e].team = "Enemy"}

C20_DefenselessTimer ==
    (last.kind = "check_game_result" /\ ~last.preresult.game_ended) =>
        /\ game_result.defenseless_timer \in
              {0, last.preresult.defenseless_timer, last.preresult.defenseless_timer + dt}
        /\ game_result.defenseless_timer > last.preresult.defenseless_timer =>
              /\ C20_Players = {} /\ C20_Enemies # {}
              /\ game_result.defenseless_timer = last.preresult.defenseless_timer + dt
        /\ C20_Players # {} => game_result.defenseless_timer = 0
        /\ game_result.defenseless_timer >= 5 * 60 =>
              (game_result.game_ended /\ ~game_result.victory)
        /\ (/\ game_result.game_ended /\ ~game_result.victory
            /\ ~(last.preresult.player_had_units /\ C20_Players = {}
                    /\ wave_manager.current_wave > 0)
            /\ ~(\E e \in C20_Enemies : units[e].pos.r <= -2))
              => (/\ game_result.defenseless_timer >= 5 * 60
                  /\ C20_Players = {} /\ C20_Enemies # {})

\* The fourth evaluation in a row with enemies and no player unit, at 1.5 s
\* a frame: the timer goes from 4.5 s to 6.0 s and the game is lost.
C20_Witness ==
    /\ last.kind = "check_game_result"
    /\ ~last.preresult.game_ended
    /\ last.preresult.defenseless_timer = 270
    /\ game_result.defenseless_timer = 360
    /\ C20_Players = {} /\ C20_Enemies # {}
    /\ game_result.game_ended /\ ~game_result.victory

\* C21: an evaluation of check_game_result that finds the game not ended,
\* current_wave >= 10, no live Enemy unit and no wave active ends the game
\* with victory = true and waves_completed = current_wave; and victory is
\* true in no state with current_wave < 10, a live enemy, an active wave or
\* enemies left to spawn.
C21_Victory ==
    /\ (/\ last.kind = "check_game_result"
        /\ ~last.preresult.game_ended
        /\ wave_manager.current_wave >= 10
        /\ {e \in Live : units[e].team = "Enemy"} = {}
        /\ ~wave_manager.wave_active)
          => (/\ game_result.game_ended
              /\ game_result.victory
              /\ game_result.waves_completed = wave_manager.current_wave)
    /\ (game_result.victory /\ (last.kind = "check_game_result" => ~last.preresult.game_ended)) =>
          /\ wave_manager.current_wave >= 10
          /\ {e \in Live : units[e].team = "Enemy"} = {}
          /\ ~wave_manager.wave_active
          /\ wave_manager.enemies_remaining = 0

\* The evaluation after the last enemy of wave 10 has fallen, with a unit of
\* the player still on the field.
C21_Witness ==
    /\ last.kind = "check_game_result"
    /\ ~last.preresult.game_ended
    /\ wave_manager.current_wave = 10
    /\ {e \in Live : units[e].team = "Player"} # {}
    /\ game_result.game_ended /\ game_result.victory
    /\ game_result.waves_completed = 10

\* C22: once game_ended is true, no step changes game_ended, victory or
\* waves_completed, and no step triggers a GameOverEvent or a
\* WaveCompleteEvent.
C22_Terminal ==
    [][game_result.game_ended =>
          /\ game_result'.game_ended
          /\ game_result'.victory = game_result.victory
          /\ game_result'.waves_completed = game_result.waves_completed
          /\ last'.triggered = <<>>]_vars

\* check_game_result has run on an ended game (the battle systems kept
\* running after the end) and wave 6 has started since.
C22_Witness ==
    /\ last.kind = "check_game_result"
    /\ last.preresult.game_ended
    /\ game_result.game_ended
    /\ wave_manager.current_wave = 6
    /\ wave_manager.wave_active

\* C23: an evaluation of check_game_result on a game not ended that finds a
\* started wave with all its enemies spawned (enemies_remaining = 0) and no
\* Enemy unit alive leaves waves_completed at that wave's number (set,
\* together with the WaveCompleteEvent, by this evaluation or an earlier
\* one).  Stated for the evaluations before the wave break begins.
C23_WaveCompleted ==
    (/\ last.kind = "check_game_result"
     /\ ~last.preresult.game_ended
     /\ phase # "WaveBreak"
     /\ wave_manager.current_wave > 0
     /\ wave_manager.enemies_remaining = 0
     /\ {e \in Live : units[e].team = "Enemy"} = {})
        => game_result.waves_completed = wave_manager.current_wave

\* C24: the handling of a match (its UnitSummonEvent) removes no Enemy unit
\* and changes no Enemy unit's team, archetype, rank or cell; the only units
\* it removes are Player units, and the unit it adds is a Player unit.
C24_SummonSparesEnemies ==
    last.kind = "match" =>
        /\ \A e \in DOMAIN Pre :
              Pre[e].team = "Enemy" =>
                  /\ e \in Live
                  /\ units[e].team = "Enemy"
                  /\ units[e].utype = Pre[e].utype
                  /\ units[e].rank = Pre[e].rank
                  /\ units[e].pos = Pre[e].pos
        /\ \A e \in Live \ DOMAIN Pre : units[e].team = "Player"

\* C25: a UnitSummonEvent of type T does exactly one of two things.  If two
\* Player units of type T with the same rank k < 3 exist, two such units are
\* removed and one Player unit of type T and rank k + 1 is placed on a free
\* cell; otherwise nothing is removed and one Player unit of type T and rank
\* star_rank is placed on a free cell, or nothing changes when the player
\* half has no free cell.  No other unit changes.
C25_Same(us, t, k) ==
    {e \in DOMAIN us : us[e].team = "Player" /\ us[e].utype = t /\ us[e].rank = k}

C25_Placed(e, t, k) ==
    /\ units[e].team = "Player" /\ units[e].utype = t /\ units[e].rank = k
    /\ is_valid_position(units[e].pos)
    /\ units[e].pos \in DOMAIN grid /\ grid[units[e].pos] = e
    /\ \A o \in Live \ {e} : units[o].pos # units[e].pos

C25_SummonOrMerge ==
    last.kind = "summon" =>
        LET t == last.summon.unit_type
            removed == DOMAIN Pre \ Live
            added == Live \ DOMAIN Pre
        IN /\ \A e \in Live \cap DOMAIN Pre : units[e] = Pre[e]
           /\ IF \E k \in 1 .. 2 : Cardinality(C25_Same(Pre, t, k)) >= 2
              THEN \E k \in 1 .. 2 :
                      /\ Cardinality(removed) = 2
                      /\ removed \subseteq C25_Same(Pre, t, k)
                      /\ Cardinality(added) = 1
                      /\ \A e \in added : C25_Placed(e, t, k + 1)
              ELSE /\ removed = {}
                   /\ IF find_empty_position(last.pregrid) = {}
                      THEN added = {}
                      ELSE /\ Cardinality(added) = 1
                           /\ \A e \in added : C25_Placed(e, t, last.summon.star_rank)

\* C26: every unit's star rank is in 1..3.  A summon that removes nothing
\* adds a unit of the event's rank (1 or 2); a summon that merges removes
\* only units of a rank below 3 and adds a unit one rank above them.
C26_StarRanks ==
    /\ \A e \in Live : units[e].rank \in 1 .. 3
    /\ last.kind = "summon" =>
          LET removed == DOMAIN Pre \ Live
              added == Live \ DOMAIN Pre
          IN /\ \A e \in removed : Pre[e].rank < 3
             /\ \A n \in added :
                   IF removed = {}
                   THEN units[n].rank = last.summon.star_rank /\ units[n].rank \in {1, 2}
                   ELSE \A e \in removed : units[n].rank = Pre[e].rank + 1

\* The second summon on a field whose Red units all have rank 3: nothing is
\* merged, a unit of the event's rank is added.
C26_Witness ==
    /\ last.kind = "summon"
    /\ events = 2
    /\ last.summon.unit_type = "Red"
    /\ Cardinality({e \in DOMAIN Pre : Pre[e].utype = "Red" /\ Pre[e].rank = 3}) >= 2
    /\ \A e \in DOMAIN Pre : Pre[e].utype = "Red" => Pre[e].rank = 3
    /\ DOMAIN Pre \subseteq Live
    /\ \E n \in Live \ DOMAIN Pre : units[n].rank = last.summon.star_rank

\* C27: a bomb detonation lowers the health of every Player unit by the bomb
\* amount (10, clamped at 0; once for each bomb that goes off in the step)
\* and leaves the health of every Enemy unit unchanged.
C27_BombHitsPlayers ==
    [][(pc = "bomb_countdown" /\ pc' = "check_wave_complete"
            /\ bomb_timer + dt >= BOMB_COUNTDOWN_INTERVAL /\ bombs[0] > 0) =>
          \A e \in DOMAIN units :
              IF units[e].team = "Player"
              THEN e \in DOMAIN units'
                   /\ units'[e].health = Max(units[e].health - 1000 * bombs[0], 0)
              ELSE e \in DOMAIN units' /\ units'[e].health = units[e].health]_vars

\* C28: when some recorded ally type has a positive score, mvp_ally names a
\* type whose score kills * 100 + damage is the greatest of all recorded types,
\* and mvp_ally's kills and damage_dealt are that type's totals.
C28_Score(t) ==
    battle_stats.ally_performance_map[t].kills * 10000
        + battle_stats.ally_performance_map[t].damage

C28_MvpIsTopScorer ==
    LET map == battle_stats.ally_performance_map
        mvp == battle_stats.mvp_ally
    IN (\E t \in DOMAIN map : C28_Score(t) > 0) =>
          /\ mvp.unit_type \in DOMAIN map
          /\ \A t \in DOMAIN map : C28_Score(mvp.unit_type) >= C28_Score(t)
          /\ mvp.kills = map[mvp.unit_type].kills
          /\ mvp.damage_dealt = map[mvp.unit_type].damage

\* 2 kills with 100 damage (score 300) lose to 0 kills with 500 damage.
C28_Witness ==
    LET map == battle_stats.ally_performance_map
    IN /\ {"Green", "Purple"} \subseteq DOMAIN map
       /\ map["Green"] = [kills |-> 2, damage |-> 10000]
       /\ map["Purple"] = [kills |-> 0, damage |-> 50000]
       /\ battle_stats.mvp_ally = [unit_type |-> "Purple", kills |-> 0,
                                   damage_dealt |-> 50000]

\* C29: of the units that queue a move to the same empty cell in one movement
\* step exactly one ends on that cell and every other one stays where it was;
\* after the step no two units stand on one cell, and no unit has moved onto a
\* cell that held a unit when the step began.
C29_Rivals(i) ==
    {j \in 1 .. Len(last.moves) : last.moves[j].to = last.moves[i].to}

C29_Moved(e) == units[e].pos # Pre[e].pos

C29_OneMoverPerCell ==
    last.kind = "movement" =>
        /\ \A i \in 1 .. Len(last.moves) :
              Cardinality(C29_Rivals(i)) >= 2 =>
                 /\ Cardinality({j \in C29_Rivals(i) :
                        units[last.moves[j].entity].pos = last.moves[i].to}) = 1
                 /\ \A j \in C29_Rivals(i) :
                        \/ units[last.moves[j].entity].pos = last.moves[i].to
                        \/ ~C29_Moved(last.moves[j].entity)
        /\ \A e1, e2 \in DOMAIN units :
              e1 # e2 => units[e1].pos # units[e2].pos
        /\ \A e \in DOMAIN units :
              C29_Moved(e) => \A o \in DOMAIN Pre : Pre[o].pos # units[e].pos

\* Two units queued the same cell; one of them stands on it.
C29_Witness ==
    /\ last.kind = "movement"
    /\ \E i, j \in 1 .. Len(last.moves) :
          /\ i # j
          /\ last.moves[i].to = last.moves[j].to
          /\ units[last.moves[i].entity].pos = last.moves[i].to
          /\ ~C29_Moved(last.moves[j].entity)

\* C30: every unit that had cooldown <= 0 and a target when attack_system
\* collected the attacks has its attack applied in that step, whatever the
\* other attacks of the step do to it or to its target: each unit's health
\* falls by all the hits aimed at it, so of two units that attack each other
\* both are hit even when one hit brings its target to health 0.
RECURSIVE C30_Hits(_, _)
C30_Hits(defense, attacks) ==
    IF attacks = {} THEN 0
    ELSE LET a == CHOOSE x \in attacks : TRUE
         IN Max(a.damage - defense, 100) + C30_Hits(defense, attacks \ {a})

C30_AllCollectedAttacksLand ==
    last.kind = "attack" =>
        /\ {a.attacker : a \in last.attacks}
              = {e \in DOMAIN Pre : Pre[e].cooldown <= 0 /\ Pre[e].target # 0}
        /\ \A a \in last.attacks :
              /\ a.target = Pre[a.attacker].target
              /\ a.damage >= Pre[a.attacker].attack
        /\ \A t \in DOMAIN units :
              units[t].health =
                 Max(Pre[t].health
                        - C30_Hits(Pre[t].defense, {a \in last.attacks : a.target = t}), 0)

\* Two units attacked each other, one hit was lethal, and the killed unit's
\* hit is in the survivor's health.
C30_Witness ==
    /\ last.kind = "attack"
    /\ \E a, b \in last.attacks :
          /\ a.target = b.attacker
          /\ b.target = a.attacker
          /\ Pre[b.attacker].health > 0
          /\ units[b.attacker].health = 0
          /\ units[a.attacker].health > 0
          /\ units[a.attacker].health < Pre[a.attacker].health

\* C31: within a frame the systems run one after another in the order of the
\* chain (spawning, targeting, movement, attack, ability, dead-unit removal,
\* synergy recompute and apply, game-result evaluation), the buffs are ticked
\* after the ability step and before the dead-unit removal, and a new frame
\* begins only after the game-result evaluation of the frame before.
C31_Chain ==
    <<"wave_spawner", "bomb_countdown", "check_wave_complete", "targeting",
      "movement", "attack", "ability", "death", "update_synergies",
      "apply_synergy_bonuses", "check_game_result", "frame_end", "wave_spawner">>

C31_ChainStep ==
    pc' # pc => \E i \in 1 .. Len(C31_Chain) - 1 :
                    pc = C31_Chain[i] /\ pc' = C31_Chain[i + 1]

C31_BuffTick == (~buffDone /\ buffDone') => pc = "death"

C31_NewFrame == frame' # frame => (pc = "frame_end" /\ pc' = "wave_spawner")

C31_FixedOrder == [][C31_ChainStep /\ C31_BuffTick /\ C31_NewFrame]_vars

\* C32 (as claimed): an attack of an Enemy unit requests at most one obstacle,
\* a bomb only from wave 5 on and an ice obstacle only in waves 3 and 4; the
\* attacks of Player units, and every attack before wave 3, request none.
C32_Requested(e) ==
    IF e \in DOMAIN last.obstacles THEN last.obstacles[e] ELSE "None"

C32_IceOnlyInWavesThreeAndFour ==
    last.kind = "attack" =>
        \A a \in last.attacks :
            /\ (C32_Requested(a.attacker) = "Bomb" => last.prewave.current_wave >= 5)
            /\ (C32_Requested(a.attacker) = "Ice" => last.prewave.current_wave \in {3, 4})
            /\ (a.team = "Player" => C32_Requested(a.attacker) = "None")
            /\ (last.prewave.current_wave < 3 => C32_Requested(a.attacker) = "None")

\* C32 (amended): as above, but the ice obstacle is requested in every wave
\* from 3 on, from wave 5 on by the attacks whose bomb roll failed; one attack
\* still requests a single obstacle, a bomb or an ice.
C32_OneObstaclePerEnemyAttack ==
    last.kind = "attack" =>
        /\ DOMAIN last.obstacles \subseteq {a.attacker : a \in last.attacks}
        /\ \A a \in last.attacks :
            /\ C32_Requested(a.attacker) \in {"None", "Bomb", "Ice"}
            /\ (C32_Requested(a.attacker) = "Bomb" => last.prewave.current_wave >= 5)
            /\ (C32_Requested(a.attacker) = "Ice" => last.prewave.current_wave >= 3)
            /\ (a.team = "Player" => C32_Requested(a.attacker) = "None")
            /\ (last.prewave.current_wave < 3 => C32_Requested(a.attacker) = "None")

\* An attack of an enemy in a wave from 5 on requested an ice obstacle.
C32_Witness ==
    /\ last.kind = "attack"
    /\ last.prewave.current_wave >= 5
    /\ \E e \in DOMAIN last.obstacles : last.obstacles[e] = "Ice"

\* C33: attacks recur.  A unit attacks when its cooldown is <= 0 at the
\* collection of the attacks, so a live unit with a target whose cooldown
\* period runs out in the frame of an attack step attacks in that step or is
\* left ready (cooldown <= 0) to attack in the step of the next frame: its
\* next attack comes at most 1 / attack_speed seconds plus one frame after
\* the one before.
C33_Attackers == {a.attacker : a \in last.attacks}

C33_PeriodOver(e) ==
    /\ e \in DOMAIN units
    /\ Pre[e].health > 0 /\ units[e].health > 0
    /\ Pre[e].target # 0 /\ Pre[e].target \in DOMAIN units
    /\ Pre[e].cooldown - dt <= 0

C33_AttacksRecur ==
    last.kind = "attack" =>
        \A e \in DOMAIN Pre :
            C33_PeriodOver(e) => (e \in C33_Attackers \/ units[e].cooldown <= 0)

\* C34: a basic attack is delivered only to a target within the attacker's
\* attack_range (hex distance at the time of the attack); a unit out of range
\* of its target deals no attack damage in that step.
C34_AttacksInRange ==
    last.kind = "attack" =>
        \A a \in last.attacks :
            a.target \in DOMAIN Pre =>
                distance(Pre[a.attacker].pos, Pre[a.target].pos)
                    <= Pre[a.attacker].attack_range

\* C35: no resurrection.  A unit whose health has reached 0 never has health
\* above 0 again: no step (an ability cast, a Heal skill orb, a synergy bonus)
\* raises the health of a unit that is at 0 and still on the field.
C35_NoResurrection ==
    [][\A e \in DOMAIN units \cap DOMAIN units' :
          units[e].health <= 0 => units'[e].health <= 0]_vars

\* C36: a unit whose health is <= 0 never acts: it is not among the attackers
\* of an attack step and not among the casters of an ability step.
C36_DeadUnitsDoNotAct ==
    /\ last.kind = "attack" =>
          \A a \in last.attacks : Pre[a.attacker].health > 0
    /\ last.kind = "ability" =>
          \A c \in last.casters : Pre[c].health > 0

\* C37: a movement step never takes a unit farther from its target: the hex
\* distance from a moved unit to the position its target had when the step
\* began is not larger after the move than before, and a unit all of whose
\* free neighbors are farther from the target than its own cell stays put.
C37_TargetPos(e) == Pre[Pre[e].target].pos

C37_HasTarget(e) == Pre[e].target # 0 /\ Pre[e].target \in DOMAIN Pre

C37_FreeNeighbors(e) ==
    {n \in {neighbors(Pre[e].pos)[i] : i \in 1 .. 6} :
        is_valid_position(n) /\ ~is_occupied(last.pregrid, n)}

C37_NeverFarther ==
    last.kind = "movement" =>
        \A e \in DOMAIN Pre :
            C37_HasTarget(e) =>
               /\ distance(units[e].pos, C37_TargetPos(e))
                     <= distance(Pre[e].pos, C37_TargetPos(e))
               /\ (\A n \in C37_FreeNeighbors(e) :
                      distance(n, C37_TargetPos(e))
                         > distance(Pre[e].pos, C37_TargetPos(e)))
                  => units[e].pos = Pre[e].pos

\* C38: victory and loss exclude each other: one evaluation of
\* check_game_result triggers at most one GameOverEvent, and when it has
\* triggered the one of the loss the result it leaves is victory = FALSE.
C38_GameOverEvents ==
    {i \in 1 .. Len(last.triggered) : last.triggered[i].event = "GameOverEvent"}

C38_VictoryExcludesLoss ==
    last.kind = "check_game_result" =>
        /\ Cardinality(C38_GameOverEvents) <= 1
        /\ (\E i \in C38_GameOverEvents : ~last.triggered[i].victory)
              => ~game_result.victory

\* C39: in every state of the wave manager enemies_remaining is between 0 and
\* 12 and is 0 whenever wave_active is FALSE; so a victory is declared, and
\* the WaveBreak phase is requested or running, only when no enemy of the
\* current wave is waiting to be spawned.
C39_NoneWaitingWhenInactive ==
    /\ wave_manager.enemies_remaining \in 0 .. 12
    /\ (~wave_manager.wave_active => wave_manager.enemies_remaining = 0)
    /\ ((last.kind = "check_game_result" /\ game_result.victory
            /\ ~last.preresult.game_ended)
          => wave_manager.enemies_remaining = 0)
    /\ ((phase = "WaveBreak" \/ next_phase = "WaveBreak")
          => wave_manager.enemies_remaining = 0)

\* The spawner has put out the last enemy of a wave and switched the wave off.
C39_Witness ==
    /\ last.kind = "wave_spawner"
    /\ last.prewave.wave_active
    /\ ~wave_manager.wave_active
    /\ wave_manager.current_wave > 0
    /\ wave_manager.enemies_remaining = 0

\* C40: the WaveBreak phase is entered at most once between two waves.  The
\* runs start in the break that follows a wave, so that wave has had its
\* break: WaveBreak is not requested again while the wave number is the one
\* the run started with.
C40_OneBreakPerWave ==
    next_phase = "WaveBreak" =>
        wave_manager.current_wave # AfterWave.wave_manager.current_wave

====
